---- MODULE Spec2Model ----
(***************************************************************************)
(* KPI tracking and zone/timezone-scoped authorization (src/kpi.py).       *)
(*                                                                         *)
(* The document store (db.kpi, db.employees) is the shared state; every    *)
(* HTTP handler is a request that runs in up to three steps, one per       *)
(* group of store calls:                                                   *)
(*   Begin : claims checks and input validation that precede the first     *)
(*           store call, and db.kpi.find_one (the snapshot)                *)
(*   Check : the legacy normalizer (which writes), the employee lookup,    *)
(*           the access guard and the computation on the snapshot          *)
(*   Write : the single update_one / insert_one / delete_one               *)
(* Instants are seconds since the epoch (UTC); a date string YYYY-MM-DD is *)
(* the number of its day.                                                  *)
(***************************************************************************)
EXTENDS Integers, Sequences, FiniteSets, TLC

VARIABLES
    kpi,        \* db.kpi: kpiId -> document
    employees,  \* db.employees: employeeId -> document
    now,        \* the clock, seconds since the epoch (UTC)
    reqs,       \* the requests in flight and their responses
    issued,     \* the kpiIds uuid4 has handed out
    started     \* how many requests were issued

vars == <<kpi, employees, now, reqs, issued, started>>

(***************************************************************************)
(* Bounds of the model                                                     *)
(***************************************************************************)
\* dates 1..MaxDay may be supplied as deadline
MaxDay == 2
\* requests issued in one behaviour of Spec (concurrent requests)
MaxRequests == 2
\* requests issued in one behaviour of SpecSeq (one request at a time)
MaxSeqRequests == 4
\* requests issued in one behaviour of SpecAuth (one request at a time)
MaxAuthRequests == 2

Zones == {"Z1", "Z2"}
EmpIds == {"E1", "E2"}
KpiIds == {"k1", "k2", "k3"}
Dates == 1..MaxDay
\* a date string that strptime("%Y-%m-%d") rejects
BadDate == 0 - 1

(***************************************************************************)
(* Timezone and date helpers                                               *)
(***************************************************************************)
DEFAULT_TZ == "Asia/Kolkata"

TZ_ALIASES(name) ==
    CASE name = "Asia/Calcutta" -> "Asia/Kolkata"
      [] name = "US/Pacific" -> "America/Los_Angeles"
      [] name = "PST8PDT" -> "America/Los_Angeles"
      [] OTHER -> name

\* the zone names ZoneInfo() accepts, among those the model uses
ValidZoneNames == {"Asia/Kolkata", "America/Los_Angeles", "UTC"}

\* ZoneInfo.utcoffset, in seconds, on the days of the model (January 1970:
\* no daylight saving time in either zone)
UtcOffset(tz) ==
    CASE tz = "Asia/Kolkata" -> 5 * 3600 + 1800
      [] tz = "America/Los_Angeles" -> 0 - 8 * 3600
      [] OTHER -> 0

_tz_from_name(name) ==
    IF name = "" THEN DEFAULT_TZ
    ELSE IF TZ_ALIASES(name) \in ValidZoneNames THEN TZ_ALIASES(name)
    ELSE DEFAULT_TZ

_tz_key(tz) == TZ_ALIASES(tz)

\* OFFICE_TZ_MAP, in insertion order
OFFICE_TZ_MAP ==
    <<<<"india", "Asia/Kolkata">>,
      <<"kolkata", "Asia/Kolkata">>,
      <<"delhi", "Asia/Kolkata">>,
      <<"in", "Asia/Kolkata">>,
      <<"las vegas", "America/Los_Angeles">>,
      <<"vegas", "America/Los_Angeles">>,
      <<"usa", "America/Los_Angeles">>,
      <<"us", "America/Los_Angeles">>,
      <<"united states", "America/Los_Angeles">>,
      <<"america", "America/Los_Angeles">>>>

\* the characters of the office texts and of the keywords of the model
Chars(s) ==
    CASE s = "india" -> <<"i", "n", "d", "i", "a">>
      [] s = "kolkata" -> <<"k", "o", "l", "k", "a", "t", "a">>
      [] s = "delhi" -> <<"d", "e", "l", "h", "i">>
      [] s = "in" -> <<"i", "n">>
      [] s = "las vegas" -> <<"l", "a", "s", " ", "v", "e", "g", "a", "s">>
      [] s = "vegas" -> <<"v", "e", "g", "a", "s">>
      [] s = "usa" -> <<"u", "s", "a">>
      [] s = "us" -> <<"u", "s">>
      [] s = "united states" -> <<"u", "n", "i", "t", "e", "d", " ", "s", "t", "a", "t", "e", "s">>
      [] s = "america" -> <<"a", "m", "e", "r", "i", "c", "a">>
      [] s = "Las Vegas" -> <<"L", "a", "s", " ", "V", "e", "g", "a", "s">>
      [] s = " india " -> <<" ", "i", "n", "d", "i", "a", " ">>
      [] s = "Austin, USA" -> <<"A", "u", "s", "t", "i", "n", ",", " ", "U", "S", "A">>
      [] s = "washington" -> <<"w", "a", "s", "h", "i", "n", "g", "t", "o", "n">>
      [] s = "london" -> <<"l", "o", "n", "d", "o", "n">>
      [] OTHER -> <<>>

\* str.lower on the letters of the model's texts
LowerChar(ch) ==
    CASE ch = "A" -> "a" [] ch = "L" -> "l" [] ch = "U" -> "u" [] ch = "S" -> "s" [] ch = "V" -> "v"
      [] OTHER -> ch

\* str.strip
RECURSIVE StripChars(_)
StripChars(t) ==
    IF t = <<>> THEN t
    ELSE IF Head(t) = " " THEN StripChars(Tail(t))
    ELSE IF t[Len(t)] = " " THEN StripChars(SubSeq(t, 1, Len(t) - 1))
    ELSE t

\* str.strip on the timezone names of the model
Strip(s) ==
    CASE s = " " -> "" [] s = " Asia/Kolkata " -> "Asia/Kolkata" [] OTHER -> s

\* key in text
IsInfix(key, text) ==
    \E i \in 0..(Len(text) - Len(key)) : SubSeq(text, i + 1, i + Len(key)) = key

\* the loop over OFFICE_TZ_MAP: the first key contained in the stripped,
\* lowercased office text decides
OfficeTz(office) ==
    LET bare == StripChars(Chars(office))
        text == [i \in 1..Len(bare) |-> LowerChar(bare[i])]
        hits == {i \in 1..Len(OFFICE_TZ_MAP) : IsInfix(Chars(OFFICE_TZ_MAP[i][1]), text)}
    IN  IF hits = {} THEN DEFAULT_TZ
        ELSE OFFICE_TZ_MAP[CHOOSE i \in hits : \A j \in hits : i <= j][2]

_employee_timezone(emp) ==
    LET tz_name == Strip(IF emp.timezone # "" THEN emp.timezone ELSE emp.tz)
        office  == IF emp.office # "" THEN emp.office
                   ELSE IF emp.branch # "" THEN emp.branch ELSE emp.location
    IN  IF tz_name # "" THEN _tz_from_name(tz_name) ELSE OfficeTz(office)

_employee_zone_id(emp) == emp.zoneId

SecondsPerDay == 24 * 3600

ValidDate(s) == s \in Nat /\ s >= 1

\* _parse_date_in_tz(...).astimezone(UTC): local midnight of day s in tz
_parse_date_in_tz(s, tz) == s * SecondsPerDay - UtcOffset(tz)

\* _end_of_day_local: hour=23, minute=59, second=59 on the same local day
_end_of_day_local(localMidnightUtc) == localMidnightUtc + 23 * 3600 + 59 * 60 + 59

\* an end of day taken on the UTC calendar, whatever the zone
ParseEodInUtc(s, tz) == s * SecondsPerDay + 23 * 3600 + 59 * 60 + 59

_parse_eod_in_tz(s, tz) == _end_of_day_local(_parse_date_in_tz(s, tz))

\* _fmt_date_in_tz: the local day of a UTC instant
_fmt_date_in_tz(dt, tz) == (dt + UtcOffset(tz)) \div SecondsPerDay

(***************************************************************************)
(* JWT claims: [role, zoneIds, employeeId, manage, kpi]. zoneIds is the    *)
(* normalized zone list (subadmin.py rejects lists with repeated or        *)
(* unknown zones, so a list is its set of members); manage and kpi are     *)
(* permissions["Manage KPI"] and permissions["KPI"].                       *)
(***************************************************************************)
\* a zone reach that never counts as multi-zone
NeverMultiZone(zone_ids) == FALSE

_is_multi_zone(zone_ids) == ("*" \in zone_ids) \/ (Cardinality(zone_ids) > 1)

is_admin_all(c) == c.role = "admin" /\ (c.zoneIds = {} \/ "*" \in c.zoneIds)

_caller_employee_id(c) == c.employeeId

\* "denied" stands for the PermissionError "Permission denied (KPI)"
_kpi_mode(c) ==
    IF c.role = "admin" THEN "admin"
    ELSE IF c.manage = 1 THEN "manage"
    ELSE IF c.kpi = 1 THEN "self"
    ELSE "denied"

\* a permission test that lets self-mode callers through
RequireAnyKpiMode(c) == _kpi_mode(c) # "denied"

\* TRUE when _require_manage_kpi returns without raising
_require_manage_kpi(c) == _kpi_mode(c) \in {"admin", "manage"}

\* a zone check without the membership test
ZoneAllowedAnyZone(c, zone_id) ==
    IF is_admin_all(c) THEN TRUE ELSE c.zoneIds # {}

\* TRUE when _ensure_zone_allowed returns without raising; zone_id "" is None
_ensure_zone_allowed(c, zone_id) ==
    IF is_admin_all(c) THEN TRUE
    ELSE IF c.zoneIds = {} THEN FALSE
    ELSE zone_id # "" /\ zone_id \in c.zoneIds

\* an employee document the directory does not hold reads as {}: no timezone,
\* no office; the fields of an employee document the model keeps
EmptyEmp ==
    [zoneId |-> "", timezone |-> "", tz |-> "", office |-> "", branch |-> "",
     location |-> "", name |-> ""]

_caller_timezone_key(c, emps) ==
    IF _caller_employee_id(c) = "" THEN _tz_key(DEFAULT_TZ)
    ELSE IF _caller_employee_id(c) \in DOMAIN emps
         THEN _tz_key(_employee_timezone(emps[_caller_employee_id(c)]))
         ELSE _tz_key(_employee_timezone(EmptyEmp))

\* an employee guard without the self-mode identity test
EmployeeScopeNoSelfTest(c, eid, emps) ==
    LET mode == _kpi_mode(c)
        doc  == emps[eid]
    IN  IF mode = "denied" THEN "denied"
        ELSE IF ~_ensure_zone_allowed(c, _employee_zone_id(doc)) THEN "forbidden"
        ELSE IF mode \in {"admin", "self"} THEN "ok"
        ELSE IF (~is_admin_all(c)) /\ (~_is_multi_zone(c.zoneIds))
                /\ _tz_key(_employee_timezone(doc)) # _caller_timezone_key(c, emps)
             THEN "forbidden"
        ELSE "ok"

\* "ok" when _ensure_employee_scope returns; "denied" / "forbidden" name the
\* PermissionError it raises (both answered 403)
_ensure_employee_scope(c, eid, emps) ==
    LET mode == _kpi_mode(c)
        doc  == emps[eid]
    IN  IF mode = "denied" THEN "denied"
        ELSE IF ~_ensure_zone_allowed(c, _employee_zone_id(doc)) THEN "forbidden"
        ELSE IF mode = "admin" THEN "ok"
        ELSE IF mode = "self"
             THEN (IF eid # _caller_employee_id(c) THEN "forbidden" ELSE "ok")
        ELSE IF (~is_admin_all(c)) /\ (~_is_multi_zone(c.zoneIds))
                /\ _tz_key(_employee_timezone(doc)) # _caller_timezone_key(c, emps)
             THEN "forbidden"
        ELSE "ok"

\* The guard every by-id handler applies after the normalizer: the owning
\* employee when the directory holds it, else the record's zoneId, else
\* all-zones admins only.
KpiGuard(c, doc, emps) ==
    IF doc.employeeId \in DOMAIN emps
    THEN _ensure_employee_scope(c, doc.employeeId, emps)
    ELSE IF doc.zoneId # ""
         THEN (IF _ensure_zone_allowed(c, doc.zoneId) THEN "ok" ELSE "forbidden")
         ELSE (IF is_admin_all(c) THEN "ok" ELSE "forbidden")

(***************************************************************************)
(* Legacy normalizer: the $set patch computed from a record as read        *)
(***************************************************************************)
\* the value None of a text field
NullStr == "<null>"

Merge(doc, updates) ==
    [f \in DOMAIN doc |-> IF f \in DOMAIN updates THEN updates[f] ELSE doc[f]]

\* {pair} when the condition holds, else nothing
Opt(cond, pair) == IF cond THEN {pair} ELSE {}

\* a normalizer that also follows the directory: it rewrites zoneId, timezone
\* and employeeName whenever they differ from the employee's
NormalizerPairsFollowing(doc, emps) ==
    LET hasEmp == doc.employeeId \in DOMAIN emps
        emp    == IF hasEmp THEN emps[doc.employeeId] ELSE EmptyEmp
    IN  Opt(doc.project_name = "" /\ doc.projectName # "",
            <<"project_name", doc.projectName>>)
        \cup Opt(doc.remark = NullStr /\ doc.Remark # NullStr,
                 <<"remark", doc.Remark>>)
        \cup Opt(~hasEmp /\ doc.timezone # "" /\ TZ_ALIASES(doc.timezone) # doc.timezone,
                 <<"timezone", TZ_ALIASES(doc.timezone)>>)
        \cup Opt(hasEmp /\ doc.zoneId # _employee_zone_id(emp),
                 <<"zoneId", _employee_zone_id(emp)>>)
        \cup Opt(hasEmp /\ doc.timezone # _tz_key(_employee_timezone(emp)),
                 <<"timezone", _tz_key(_employee_timezone(emp))>>)
        \cup Opt(hasEmp /\ doc.employeeName # emp.name,
                 <<"employeeName", emp.name>>)

\* the patch as the set of <<field, value>> pairs to $set
NormalizerPairs(doc, emps) ==
    LET needEmp == doc.zoneId = "" \/ doc.timezone = "" \/ doc.employeeName = ""
        hasEmp  == needEmp /\ doc.employeeId \in DOMAIN emps
        emp     == IF hasEmp THEN emps[doc.employeeId] ELSE EmptyEmp
    IN  Opt(doc.project_name = "" /\ doc.projectName # "",
            <<"project_name", doc.projectName>>)
        \cup Opt(doc.remark = NullStr /\ doc.Remark # NullStr,
                 <<"remark", doc.Remark>>)
        \cup Opt(doc.timezone # "" /\ TZ_ALIASES(doc.timezone) # doc.timezone,
                 <<"timezone", TZ_ALIASES(doc.timezone)>>)
        \cup Opt(hasEmp /\ doc.zoneId = "" /\ _employee_zone_id(emp) # "",
                 <<"zoneId", _employee_zone_id(emp)>>)
        \cup Opt(hasEmp /\ doc.timezone = "",
                 <<"timezone", _tz_key(_employee_timezone(emp))>>)
        \cup Opt(hasEmp /\ doc.employeeName = "" /\ emp.name # "",
                 <<"employeeName", emp.name>>)

\* updates: the patch as a dict, field -> value
NormalizerUpdates(doc, emps) ==
    LET pairs == NormalizerPairs(doc, emps)
    IN  [f \in {p[1] : p \in pairs} |-> (CHOOSE p \in pairs : p[1] = f)[2]]

\* db.kpi.update_one({"kpiId": k}, {"$set": updates}): nothing when no
\* document has the id
SetFields(store, k, updates) ==
    IF k \in DOMAIN store
    THEN [store EXCEPT ![k] = Merge(store[k], updates)]
    ELSE store

\* a normalizer that stamps the record on every call
NormalizerStoreStamping(store, k, doc, emps) ==
    SetFields(store, k, [updatedAt |-> 0])

\* _ensure_kpi_has_zone_and_timezone: the store after its write
NormalizerStore(store, k, doc, emps) ==
    IF NormalizerPairs(doc, emps) # {}
    THEN SetFields(store, k, NormalizerUpdates(doc, emps))
    ELSE store

\* _ensure_kpi_has_zone_and_timezone: the record it returns
_ensure_kpi_has_zone_and_timezone(doc, emps) ==
    Merge(doc, NormalizerUpdates(doc, emps))

(***************************************************************************)
(* Documents, requests and responses                                       *)
(***************************************************************************)
\* a record no handler holds yet
NoDoc ==
    [employeeId |-> "", zoneId |-> "", employeeName |-> "", project_name |-> "",
     projectName |-> "", startdate |-> 0, deadline |-> 0, timezone |-> "",
     remark |-> NullStr, Remark |-> NullStr, points |-> 0, qualityPoints |-> {},
     punches |-> <<>>, createdAt |-> 0, updatedAt |-> 0]

NoCaller == [role |-> "", zoneIds |-> {}, employeeId |-> "", manage |-> 0, kpi |-> 0]

\* the JSON body: emp = employeeId, pn = projectName, dl = deadline and
\* sd = startdate (no date, or one date string), qp = qualityPoint,
\* remark (NullStr when absent); the filters of the list and export bodies:
\* zone = zoneId, emps = employeeIds, employesids (the misspelt key getAll
\* also reads), search, from = startDate and to = endDate (no date, or one
\* date string), ftz = tz, page, size = pageSize, all, desc = (sortOrder is
\* "desc")
NoArg ==
    [emp |-> "", pn |-> "", dl |-> {}, sd |-> {}, qp |-> "", remark |-> NullStr,
     zone |-> "", emps |-> {}, employesids |-> {}, search |-> "", from |-> {},
     to |-> {}, ftz |-> "", page |-> 1, size |-> 10, all |-> FALSE, desc |-> TRUE]

NoCalc == [now |-> 0, pts |-> 0, change |-> 0, st |-> "", qp |-> 0, upd |-> {}]

Idle ==
    [op |-> "none", c |-> NoCaller, k |-> "", arg |-> NoArg, pc |-> "idle",
     snap |-> NoDoc, calc |-> NoCalc, status |-> 0, msg |-> "", data |-> NoCalc,
     out |-> {}, total |-> 0]

\* format_response(..., status): the handler returns
Respond(q, status, msg) ==
    [q EXCEPT !.pc = "done", !.status = status, !.msg = msg,
              !.snap = NoDoc, !.calc = NoCalc]

\* a request enters handler op
Enter(op, c, k, arg) == [Idle EXCEPT !.op = op, !.c = c, !.k = k, !.arg = arg]

Free(r) == reqs[r].pc \in {"idle", "done"}

\* db.kpi.find_one({"kpiId": k}) and the "KPI not found" return
FindKpi(q) ==
    IF q.k \in DOMAIN kpi
    THEN [q EXCEPT !.pc = "check", !.snap = kpi[q.k]]
    ELSE Respond(q, 404, "KPI not found")

\* the dict of a $set given as <<field, value>> pairs
Dict(pairs) == [f \in {p[1] : p \in pairs} |-> (CHOOSE p \in pairs : p[1] = f)[2]]

(***************************************************************************)
(* punchKpi                                                                *)
(***************************************************************************)
BeginPunch(r, c, k) ==
    /\ Free(r)
    /\ reqs' = [reqs EXCEPT ![r] = FindKpi(Enter("punch", c, k, NoArg))]
    /\ started' = started + 1
    /\ UNCHANGED <<kpi, employees, now, issued>>

\* variants of the punch computation, used to show that the properties
\* below depend on it
PunchOnTimeStrict(doc, now_utc) == now_utc < doc.deadline

PunchNewPtsAnyPunch(doc, on_time) == IF doc.points = 0 - 1 THEN 1 ELSE doc.points

PunchChangeEveryOnTime(doc, on_time) == IF on_time THEN 2 ELSE 0

\* on_time and the points transition, from the record as read
PunchOnTime(doc, now_utc) == now_utc <= doc.deadline

PunchNewPts(doc, on_time) == IF on_time /\ doc.points = 0 - 1 THEN 1 ELSE doc.points

PunchChange(doc, on_time) ==
    IF on_time /\ doc.points = 0 - 1 THEN 1 - doc.points ELSE 0

PunchStatus(on_time) == IF on_time THEN "On Time" ELSE "Late Submission"

CheckPunch(r) ==
    LET q   == reqs[r]
        doc == _ensure_kpi_has_zone_and_timezone(q.snap, employees)
        on_time == PunchOnTime(doc, now)
    IN  /\ q.op = "punch" /\ q.pc = "check"
        /\ kpi' = NormalizerStore(kpi, q.k, q.snap, employees)
        /\ reqs' = [reqs EXCEPT ![r] =
              IF KpiGuard(q.c, doc, employees) # "ok"
              THEN Respond(q, 403, KpiGuard(q.c, doc, employees))
              ELSE [q EXCEPT !.pc = "write", !.snap = doc,
                             !.calc = [NoCalc EXCEPT !.now = now,
                                          !.pts = PunchNewPts(doc, on_time),
                                          !.change = PunchChange(doc, on_time),
                                          !.st = PunchStatus(on_time)]]]
        /\ UNCHANGED <<employees, now, issued, started>>

\* a $set of the punch list in place of the $push
PunchUpdateOverwrite(doc, calc) ==
    [doc EXCEPT !.punches = <<[punchDate |-> calc.now, remark |-> "",
                               pointChange |-> calc.change,
                               status |-> calc.st]>>,
                !.updatedAt = calc.now,
                !.points = calc.pts]

\* update_one: $push punches, $set updatedAt and points
PunchUpdate(doc, calc) ==
    [doc EXCEPT !.punches = Append(@, [punchDate |-> calc.now, remark |-> "",
                                       pointChange |-> calc.change,
                                       status |-> calc.st]),
                !.updatedAt = calc.now,
                !.points = calc.pts]

WritePunch(r) ==
    LET q == reqs[r]
    IN  /\ q.op = "punch" /\ q.pc = "write"
        /\ kpi' = IF q.k \in DOMAIN kpi
                  THEN [kpi EXCEPT ![q.k] = PunchUpdate(@, q.calc)]
                  ELSE kpi
        /\ reqs' = [reqs EXCEPT ![r] =
              [Respond(q, 200, "Punch recorded") EXCEPT !.data = q.calc]]
        /\ UNCHANGED <<employees, now, issued, started>>

(***************************************************************************)
(* updateKpi                                                               *)
(***************************************************************************)
BeginUpdate(r, c, k, arg) ==
    /\ Free(r)
    /\ reqs' = [reqs EXCEPT ![r] = FindKpi(Enter("update", c, k, arg))]
    /\ started' = started + 1
    /\ UNCHANGED <<kpi, employees, now, issued>>

\* the first date field that fails to parse, in the order the handler parses
UpdateBadField(arg) ==
    IF \E d \in arg.sd : ~ValidDate(d) THEN "startdate"
    ELSE IF \E d \in arg.dl : ~ValidDate(d) THEN "deadline"
    ELSE ""

\* an update that writes the project name whether or not it was supplied
UpdatePairsAlwaysName(doc, arg) ==
    LET tz == _tz_from_name(doc.timezone)
    IN  {<<"project_name", arg.pn>>}
        \cup {<<"startdate", _parse_date_in_tz(d, tz)>> : d \in arg.sd}
        \cup {<<"deadline", _parse_eod_in_tz(d, tz)>> : d \in arg.dl}
        \cup Opt(arg.remark # NullStr, <<"remark", arg.remark>>)

\* an update that clears the points when it moves the deadline
UpdatePairsRescoring(doc, arg) ==
    LET tz == _tz_from_name(doc.timezone)
    IN  Opt(arg.pn # "", <<"project_name", arg.pn>>)
        \cup {<<"startdate", _parse_date_in_tz(d, tz)>> : d \in arg.sd}
        \cup {<<"deadline", _parse_eod_in_tz(d, tz)>> : d \in arg.dl}
        \cup Opt(arg.dl # {}, <<"points", 0 - 1>>)
        \cup Opt(arg.remark # NullStr, <<"remark", arg.remark>>)

\* updates, before updatedAt: dates are parsed in the record's stored timezone
UpdatePairs(doc, arg) ==
    LET tz == _tz_from_name(doc.timezone)
    IN  Opt(arg.pn # "", <<"project_name", arg.pn>>)
        \cup {<<"startdate", _parse_date_in_tz(d, tz)>> : d \in arg.sd}
        \cup {<<"deadline", _parse_eod_in_tz(d, tz)>> : d \in arg.dl}
        \cup Opt(arg.remark # NullStr, <<"remark", arg.remark>>)

CheckUpdate(r) ==
    LET q   == reqs[r]
        doc == _ensure_kpi_has_zone_and_timezone(q.snap, employees)
    IN  /\ q.op = "update" /\ q.pc = "check"
        /\ kpi' = NormalizerStore(kpi, q.k, q.snap, employees)
        /\ reqs' = [reqs EXCEPT ![r] =
              IF KpiGuard(q.c, doc, employees) # "ok"
              THEN Respond(q, 403, KpiGuard(q.c, doc, employees))
              ELSE IF UpdateBadField(q.arg) # ""
              THEN Respond(q, 400, UpdateBadField(q.arg))
              ELSE IF UpdatePairs(doc, q.arg) = {}
              THEN Respond(q, 400, "No fields to update")
              ELSE [q EXCEPT !.pc = "write", !.snap = doc,
                             !.calc = [NoCalc EXCEPT !.now = now,
                                 !.upd = UpdatePairs(doc, q.arg)
                                            \cup {<<"updatedAt", now>>}]]]
        /\ UNCHANGED <<employees, now, issued, started>>

WriteUpdate(r) ==
    LET q == reqs[r]
    IN  /\ q.op = "update" /\ q.pc = "write"
        /\ kpi' = SetFields(kpi, q.k, Dict(q.calc.upd))
        /\ reqs' = [reqs EXCEPT ![r] = Respond(q, 200, "KPI updated")]
        /\ UNCHANGED <<employees, now, issued, started>>

(***************************************************************************)
(* setQualityPoint                                                         *)
(***************************************************************************)
\* raw JSON values by their literal; "" is an absent field. False values
\* (0, false) do not survive the `or` chain that reads the field.
QpMissing(raw) == raw \in {"", "0", "false"}

\* _coerce_quality_point: {} when it raises ValueError, else {int(raw)}
_coerce_quality_point(raw) ==
    CASE raw \in {"1", "1.5", "true", "'1'"} -> {1}
      [] raw \in {"-1", "-1.5", "'-1'"} -> {0 - 1}
      [] OTHER -> {}

BeginSetQp(r, c, k, arg) ==
    LET q == Enter("setqp", c, k, arg)
    IN  /\ Free(r)
        /\ reqs' = [reqs EXCEPT ![r] =
              IF ~_require_manage_kpi(c) THEN Respond(q, 403, "denied")
              ELSE IF QpMissing(arg.qp)
              THEN Respond(q, 400, "Missing kpiId or qualityPoint")
              ELSE IF _coerce_quality_point(arg.qp) = {}
              THEN Respond(q, 400, "qualityPoint must be -1 or 1")
              ELSE FindKpi(q)]
        /\ started' = started + 1
        /\ UNCHANGED <<kpi, employees, now, issued>>

CheckSetQp(r) ==
    LET q   == reqs[r]
        doc == _ensure_kpi_has_zone_and_timezone(q.snap, employees)
    IN  /\ q.op = "setqp" /\ q.pc = "check"
        /\ kpi' = NormalizerStore(kpi, q.k, q.snap, employees)
        /\ reqs' = [reqs EXCEPT ![r] =
              IF KpiGuard(q.c, doc, employees) # "ok"
              THEN Respond(q, 403, KpiGuard(q.c, doc, employees))
              ELSE [q EXCEPT !.pc = "write", !.snap = doc,
                             !.calc = [NoCalc EXCEPT !.now = now,
                                 !.qp = CHOOSE v \in _coerce_quality_point(q.arg.qp) : TRUE]]]
        /\ UNCHANGED <<employees, now, issued, started>>

\* a write-once quality point, in the manner of points
QpUpdateFirstOnly(doc, calc) ==
    [doc EXCEPT !.qualityPoints = IF @ = {} THEN {calc.qp} ELSE @,
                !.updatedAt = calc.now]

\* update_one: $set qualityPoints and updatedAt
QpUpdate(doc, calc) ==
    [doc EXCEPT !.qualityPoints = {calc.qp}, !.updatedAt = calc.now]

WriteSetQp(r) ==
    LET q == reqs[r]
    IN  /\ q.op = "setqp" /\ q.pc = "write"
        /\ kpi' = IF q.k \in DOMAIN kpi
                  THEN [kpi EXCEPT ![q.k] = QpUpdate(@, q.calc)]
                  ELSE kpi
        /\ reqs' = [reqs EXCEPT ![r] =
              [Respond(q, 200, "Quality points saved") EXCEPT !.data = q.calc]]
        /\ UNCHANGED <<employees, now, issued, started>>

(***************************************************************************)
(* deleteKpi                                                               *)
(***************************************************************************)
BeginDelete(r, c, k) ==
    LET q == Enter("delete", c, k, NoArg)
    IN  /\ Free(r)
        /\ reqs' = [reqs EXCEPT ![r] =
              IF ~_require_manage_kpi(c) THEN Respond(q, 403, "denied")
              ELSE FindKpi(q)]
        /\ started' = started + 1
        /\ UNCHANGED <<kpi, employees, now, issued>>

CheckDelete(r) ==
    LET q   == reqs[r]
        doc == _ensure_kpi_has_zone_and_timezone(q.snap, employees)
    IN  /\ q.op = "delete" /\ q.pc = "check"
        /\ kpi' = NormalizerStore(kpi, q.k, q.snap, employees)
        /\ reqs' = [reqs EXCEPT ![r] =
              IF KpiGuard(q.c, doc, employees) # "ok"
              THEN Respond(q, 403, KpiGuard(q.c, doc, employees))
              ELSE [q EXCEPT !.pc = "write", !.snap = doc]]
        /\ UNCHANGED <<employees, now, issued, started>>

\* db.kpi.delete_one
DeleteOne(store, k) == [x \in DOMAIN store \ {k} |-> store[x]]

WriteDelete(r) ==
    LET q == reqs[r]
    IN  /\ q.op = "delete" /\ q.pc = "write"
        /\ kpi' = DeleteOne(kpi, q.k)
        /\ reqs' = [reqs EXCEPT ![r] =
              IF q.k \in DOMAIN kpi THEN Respond(q, 200, "KPI deleted")
              ELSE Respond(q, 404, "KPI not found")]
        /\ UNCHANGED <<employees, now, issued, started>>

(***************************************************************************)
(* getByKpiId (getKpi)                                                     *)
(***************************************************************************)
\* the rows a response carries: <<kpiId, employeeId>> of each record
Rows(store, ks) == {<<k, store[k].employeeId>> : k \in ks}

\* a row mapper that fills the fields in the response only
NormalizeNone(store, ks, emps) == store

\* _map_kpi_row on each record of a cursor: the normalizer's writes
NormalizeAll(store, ks, emps) ==
    [k \in DOMAIN store |->
        IF k \in ks THEN _ensure_kpi_has_zone_and_timezone(store[k], emps)
        ELSE store[k]]

\* the request enters getByKpiId: _kpi_mode() and find_one
GetEnters(r, c, k) ==
    LET q == Enter("get", c, k, NoArg)
    IN  /\ Free(r)
        /\ reqs' = [reqs EXCEPT ![r] =
              IF _kpi_mode(c) = "denied" THEN Respond(q, 403, "denied")
              ELSE FindKpi(q)]

BeginGet(r, c, k) ==
    /\ GetEnters(r, c, k)
    /\ started' = started + 1
    /\ UNCHANGED <<kpi, employees, now, issued>>

CheckGet(r) ==
    LET q    == reqs[r]
        doc  == _ensure_kpi_has_zone_and_timezone(q.snap, employees)
        kpi1 == NormalizerStore(kpi, q.k, q.snap, employees)
        ok   == KpiGuard(q.c, doc, employees) = "ok"
    IN  /\ q.op = "get" /\ q.pc = "check"
        /\ kpi' = IF ok THEN NormalizerStore(kpi1, q.k, doc, employees) ELSE kpi1
        /\ reqs' = [reqs EXCEPT ![r] =
              IF ~ok THEN Respond(q, 403, KpiGuard(q.c, doc, employees))
              ELSE [Respond(q, 200, "KPI retrieved") EXCEPT
                       !.out = {<<q.k, doc.employeeId>>}]]
        /\ UNCHANGED <<employees, now, issued, started>>

\* getByKpiId when the normalizer's find_one on the employees or its
\* update_one on the record raises: the normalizer has no handler of its own,
\* the exception reaches the handler's except Exception
CheckGetFails(r) ==
    LET q == reqs[r]
        needEmp == q.snap.zoneId = "" \/ q.snap.timezone = "" \/ q.snap.employeeName = ""
    IN  /\ q.op = "get" /\ q.pc = "check"
        /\ needEmp \/ NormalizerPairs(q.snap, employees) # {}
        /\ reqs' = [reqs EXCEPT ![r] = Respond(q, 500, "Internal server error")]
        /\ UNCHANGED <<kpi, employees, now, issued, started>>

(***************************************************************************)
(* getAll (listKpis) and export_csv (exportKpisCsv)                        *)
(***************************************************************************)
\* the employees found by the zone query of _allowed_employee_ids
ZoneQuery(c, selected_zone_id, emps) ==
    {e \in DOMAIN emps :
        IF selected_zone_id # "" THEN _employee_zone_id(emps[e]) = selected_zone_id
        ELSE is_admin_all(c) \/ _employee_zone_id(emps[e]) \in c.zoneIds}

\* an allowed set without the timezone filter of single-zone managers
AllowedIdsNoTimezoneFilter(c, selected_zone_id, emps) ==
    IF _kpi_mode(c) = "self"
    THEN {_caller_employee_id(c)} \ {""}
    ELSE IF selected_zone_id = "" /\ ~is_admin_all(c) /\ c.zoneIds = {} THEN {}
    ELSE ZoneQuery(c, selected_zone_id, emps)

\* the employee ids _allowed_employee_ids returns
_allowed_employee_ids(c, selected_zone_id, emps) ==
    LET apply_tz_filter ==
            _kpi_mode(c) = "manage" /\ ~is_admin_all(c) /\ ~_is_multi_zone(c.zoneIds)
    IN  IF _kpi_mode(c) = "self"
        THEN {_caller_employee_id(c)} \ {""}
        ELSE IF selected_zone_id = "" /\ ~is_admin_all(c) /\ c.zoneIds = {} THEN {}
        ELSE {e \in ZoneQuery(c, selected_zone_id, emps) :
                 apply_tz_filter =>
                    _tz_key(_employee_timezone(emps[e])) = _caller_timezone_key(c, emps)}

\* TRUE when the _ensure_zone_allowed call of _allowed_employee_ids raises
ZoneRefused(c, selected_zone_id) ==
    /\ _kpi_mode(c) # "self"
    /\ selected_zone_id # ""
    /\ ~_ensure_zone_allowed(c, selected_zone_id)

\* requested_ids of getAll: employeeId, else employeeIds, else employesids
RequestedIds(arg) ==
    IF arg.emp # "" THEN {arg.emp}
    ELSE IF arg.emps # {} THEN arg.emps
    ELSE arg.employesids

\* emp_single and emp_list of export_csv: employeeId, else employeeIds
ExportRequestedIds(arg) == IF arg.emp # "" THEN {arg.emp} ELSE arg.emps

\* the strings of the model are atoms: a case-insensitive regex of an escaped
\* search term finds a field when term and field are the same up to case
Lower(s) ==
    CASE s = "P" -> "p" [] s = "Q" -> "q" [] s = "E1" -> "e1" [] s = "E2" -> "e2"
      [] s = "N1" -> "n1" [] s = "N2" -> "n2" [] OTHER -> s

SearchHit(v, s) == v \notin {"", NullStr} /\ Lower(v) = Lower(s)

\* the $or of the search: getAll and export_csv look at four fields,
\* getByEmployeeId at the two project names
SearchMatches(doc, s, broad) ==
    \/ s = ""
    \/ SearchHit(doc.project_name, s)
    \/ SearchHit(doc.projectName, s)
    \/ broad /\ (SearchHit(doc.employeeName, s) \/ SearchHit(doc.employeeId, s))

\* "if sd and ed": the date filter applies when both dates are given
RangeGiven(arg) == arg.from # {} /\ arg.to # {}

\* the field whose ValueError _parse_filter_range_to_utc raises, "" if none
RangeBadField(arg) ==
    IF ~RangeGiven(arg) THEN ""
    ELSE IF \E d \in arg.from : ~ValidDate(d) THEN "startDate"
    ELSE IF \E d \in arg.to : ~ValidDate(d) THEN "endDate"
    ELSE ""

_parse_filter_range_to_utc(sd, ed, tz) ==
    <<_parse_date_in_tz(sd, tz), _parse_eod_in_tz(ed, tz)>>

\* query["startdate"] = {"$gte": start_utc, "$lte": end_utc}
InRange(doc, arg, tz) ==
    RangeGiven(arg) =>
        LET rng == _parse_filter_range_to_utc(CHOOSE d \in arg.from : TRUE,
                                              CHOOSE d \in arg.to : TRUE, tz)
        IN  rng[1] <= doc.startdate /\ doc.startdate <= rng[2]

\* db.kpi.find(query): the records of employees ids that pass the filters
FindKpis(store, ids, arg, broad, tz) ==
    {k \in DOMAIN store :
        /\ store[k].employeeId \in ids
        /\ SearchMatches(store[k], arg.search, broad)
        /\ InRange(store[k], arg, tz)}

\* the order of insertion, which the cursor keeps among equal sort keys
KpiIndex(k) == CASE k = "k1" -> 1 [] k = "k2" -> 2 [] OTHER -> 3

\* .sort("createdAt", sort_dir): record j comes before record k
SortsBefore(store, j, k, desc) ==
    \/ IF desc THEN store[j].createdAt > store[k].createdAt
       ELSE store[j].createdAt < store[k].createdAt
    \/ store[j].createdAt = store[k].createdAt /\ KpiIndex(j) < KpiIndex(k)

\* .skip((page - 1) * page_size).limit(page_size)
PageOf(store, ks, desc, page, size) ==
    {k \in ks :
        LET pos == Cardinality({j \in ks : SortsBefore(store, j, k, desc)})
        IN  (page - 1) * size <= pos /\ pos < page * size}

\* a 200 response that carries the records ks out of total
Page(q, msg, store, ks, total) ==
    [Respond(q, 200, msg) EXCEPT !.out = Rows(store, ks), !.total = total]

BeginGetAll(r, c, arg) ==
    LET q == Enter("getall", c, "", arg)
    IN  /\ Free(r)
        /\ reqs' = [reqs EXCEPT ![r] =
              IF ~_require_manage_kpi(c) THEN Respond(q, 403, "denied")
              ELSE [q EXCEPT !.pc = "check"]]
        /\ started' = started + 1
        /\ UNCHANGED <<kpi, employees, now, issued>>

CheckGetAll(r) ==
    LET q         == reqs[r]
        allowed   == _allowed_employee_ids(q.c, q.arg.zone, employees)
        requested == RequestedIds(q.arg) \cap allowed
        ids       == IF requested # {} THEN requested ELSE allowed
        filter_tz == _tz_from_name(q.arg.ftz)
        found     == FindKpis(kpi, ids, q.arg, TRUE, filter_tz)
        ks        == PageOf(kpi, found, q.arg.desc, q.arg.page, q.arg.size)
        empty     == \/ allowed = {}
                     \/ RequestedIds(q.arg) # {} /\ requested = {}
        ok        == /\ ~ZoneRefused(q.c, q.arg.zone) /\ ~empty
                     /\ RangeBadField(q.arg) = ""
    IN  /\ q.op = "getall" /\ q.pc = "check"
        /\ kpi' = IF ok THEN NormalizeAll(kpi, ks, employees) ELSE kpi
        /\ reqs' = [reqs EXCEPT ![r] =
              IF ZoneRefused(q.c, q.arg.zone) THEN Respond(q, 403, "Forbidden (different zone)")
              ELSE IF empty THEN Page(q, "KPIs retrieved", kpi, {}, 0)
              ELSE IF RangeBadField(q.arg) # "" THEN Respond(q, 400, RangeBadField(q.arg))
              ELSE Page(q, "KPIs retrieved", kpi, ks, Cardinality(found))]
        /\ UNCHANGED <<employees, now, issued, started>>

BeginExport(r, c, arg) ==
    LET q == Enter("export", c, "", arg)
    IN  /\ Free(r)
        /\ reqs' = [reqs EXCEPT ![r] =
              IF ~_require_manage_kpi(c) THEN Respond(q, 403, "denied")
              ELSE [q EXCEPT !.pc = "check"]]
        /\ started' = started + 1
        /\ UNCHANGED <<kpi, employees, now, issued>>

CheckExport(r) ==
    LET q         == reqs[r]
        allowed   == _allowed_employee_ids(q.c, q.arg.zone, employees)
        ids       == IF ExportRequestedIds(q.arg) # {}
                     THEN ExportRequestedIds(q.arg) \cap allowed ELSE allowed
        filter_tz == _tz_from_name(q.arg.ftz)
        found     == FindKpis(kpi, ids, q.arg, TRUE, filter_tz)
        ks        == IF q.arg.all THEN found
                     ELSE PageOf(kpi, found, q.arg.desc, q.arg.page, q.arg.size)
        ok        == /\ ~ZoneRefused(q.c, q.arg.zone) /\ ids # {}
                     /\ RangeBadField(q.arg) = ""
    IN  /\ q.op = "export" /\ q.pc = "check"
        /\ kpi' = IF ok THEN NormalizeAll(kpi, ks, employees) ELSE kpi
        /\ reqs' = [reqs EXCEPT ![r] =
              IF ZoneRefused(q.c, q.arg.zone) THEN Respond(q, 403, "Forbidden (different zone)")
              ELSE IF allowed = {} THEN Page(q, "csv", kpi, {}, 0)
              ELSE IF ids = {} THEN Respond(q, 403, "No employees allowed for export")
              ELSE IF RangeBadField(q.arg) # "" THEN Respond(q, 500, "Internal server error")
              ELSE Page(q, "csv", kpi, ks, Cardinality(ks))]
        /\ UNCHANGED <<employees, now, issued, started>>

(***************************************************************************)
(* getByEmployeeId (listKpisForEmployee)                                   *)
(***************************************************************************)
ListEmployeeId(c, arg) ==
    IF _kpi_mode(c) = "self" THEN _caller_employee_id(c) ELSE arg.emp

\* the request enters getByEmployeeId: _kpi_mode() and the employee id
ListEnters(r, c, arg) ==
    LET q == Enter("list", c, "", arg)
    IN  /\ Free(r)
        /\ reqs' = [reqs EXCEPT ![r] =
              IF _kpi_mode(c) = "denied" THEN Respond(q, 403, "denied")
              ELSE IF _kpi_mode(c) = "self" /\ _caller_employee_id(c) = ""
              THEN Respond(q, 403, "Missing employeeId in token")
              ELSE IF ListEmployeeId(c, arg) = ""
              THEN Respond(q, 400, "Missing employeeId")
              ELSE [q EXCEPT !.pc = "check"]]

BeginList(r, c, arg) ==
    /\ ListEnters(r, c, arg)
    /\ started' = started + 1
    /\ UNCHANGED <<kpi, employees, now, issued>>

CheckList(r) ==
    LET q      == reqs[r]
        eid    == ListEmployeeId(q.c, q.arg)
        ok     == eid \in DOMAIN employees
                    /\ _ensure_employee_scope(q.c, eid, employees) = "ok"
        emp_tz == _employee_timezone(employees[eid])
        found  == FindKpis(kpi, {eid}, q.arg, FALSE, emp_tz)
        ks     == PageOf(kpi, found, TRUE, q.arg.page, q.arg.size)
        lists  == ok /\ RangeBadField(q.arg) = ""
    IN  /\ q.op = "list" /\ q.pc = "check"
        /\ kpi' = IF lists THEN NormalizeAll(kpi, ks, employees) ELSE kpi
        /\ reqs' = [reqs EXCEPT ![r] =
              IF eid \notin DOMAIN employees
              THEN Respond(q, 404, "Employee not found")
              ELSE IF ~ok
              THEN Respond(q, 403, _ensure_employee_scope(q.c, eid, employees))
              ELSE IF RangeBadField(q.arg) # ""
              THEN Respond(q, 500, "Internal server error")
              ELSE Page(q, "Found", kpi, ks, Cardinality(found))]
        /\ UNCHANGED <<employees, now, issued, started>>

(***************************************************************************)
(* addKpi (createKpi)                                                      *)
(***************************************************************************)
\* _resolve_employee_id_from_request
_resolve_employee_id_from_request(c, arg) ==
    IF _kpi_mode(c) = "self" THEN _caller_employee_id(c) ELSE arg.emp

BeginCreate(r, c, arg, id) ==
    LET q == Enter("create", c, "", arg)
        go == [q EXCEPT !.pc = "check", !.k = id]
        q1 == IF _kpi_mode(c) = "denied" THEN Respond(q, 403, "denied")
              ELSE IF _kpi_mode(c) = "self" /\ _caller_employee_id(c) = ""
              THEN Respond(q, 403, "Missing employeeId in token")
              ELSE IF _resolve_employee_id_from_request(c, arg) = ""
              THEN Respond(q, 400, "Missing employeeId")
              ELSE IF arg.pn = "" \/ arg.dl = {}
              THEN Respond(q, 400, "Missing required fields: projectName, deadline")
              ELSE go
    IN  /\ Free(r)
        /\ id \notin issued
        /\ reqs' = [reqs EXCEPT ![r] = q1]
        /\ issued' = IF q1 = go THEN issued \cup {id} ELSE issued
        /\ started' = started + 1
        /\ UNCHANGED <<kpi, employees, now>>

\* the first date field that fails to parse, in the order the handler parses
CreateBadField(arg) ==
    IF \E d \in arg.sd : ~ValidDate(d) THEN "startdate"
    ELSE IF \E d \in arg.dl : ~ValidDate(d) THEN "deadline"
    ELSE ""

\* kpi_doc: the document addKpi inserts for employee eid at instant now_utc
NewKpiDoc(eid, emp, arg, now_utc) ==
    LET tz == _employee_timezone(emp)
        sd == IF arg.sd # {} THEN CHOOSE d \in arg.sd : TRUE
              ELSE _fmt_date_in_tz(now_utc, tz)
        dl == CHOOSE d \in arg.dl : TRUE
    IN  [employeeId |-> eid, zoneId |-> _employee_zone_id(emp),
         employeeName |-> emp.name, project_name |-> arg.pn, projectName |-> "",
         startdate |-> _parse_date_in_tz(sd, tz),
         deadline |-> _parse_eod_in_tz(dl, tz),
         timezone |-> _tz_key(tz),
         remark |-> IF arg.remark = NullStr THEN "" ELSE arg.remark,
         Remark |-> NullStr, points |-> 0 - 1, qualityPoints |-> {},
         punches |-> <<>>, createdAt |-> now_utc, updatedAt |-> now_utc]

CheckCreate(r) ==
    LET q   == reqs[r]
        eid == _resolve_employee_id_from_request(q.c, q.arg)
    IN  /\ q.op = "create" /\ q.pc = "check"
        /\ reqs' = [reqs EXCEPT ![r] =
              IF eid \notin DOMAIN employees
              THEN Respond(q, 404, "Employee not found")
              ELSE IF _ensure_employee_scope(q.c, eid, employees) # "ok"
              THEN Respond(q, 403, _ensure_employee_scope(q.c, eid, employees))
              ELSE IF CreateBadField(q.arg) # ""
              THEN Respond(q, 400, CreateBadField(q.arg))
              ELSE [q EXCEPT !.pc = "write",
                             !.snap = NewKpiDoc(eid, employees[eid], q.arg, now)]]
        /\ UNCHANGED <<kpi, employees, now, issued, started>>

\* db.kpi.insert_one
InsertOne(store, k, doc) ==
    [x \in DOMAIN store \cup {k} |-> IF x = k THEN doc ELSE store[x]]

WriteCreate(r) ==
    LET q == reqs[r]
    IN  /\ q.op = "create" /\ q.pc = "write"
        /\ kpi' = InsertOne(kpi, q.k, q.snap)
        /\ reqs' = [reqs EXCEPT ![r] = Respond(q, 201, "KPI added")]
        /\ UNCHANGED <<employees, now, issued, started>>

(***************************************************************************)
(* The clock                                                               *)
(***************************************************************************)
\* the instants at which a deadline of the model falls, and the second after
ClockPoints(tzs) ==
    {_parse_eod_in_tz(d, tz) + i : d \in Dates, tz \in tzs, i \in {0, 1}}

Tick(points) ==
    /\ \E t \in points : t > now /\ now' = t
    /\ UNCHANGED <<kpi, employees, reqs, issued, started>>

(***************************************************************************)
(* Callers, directories and inputs                                         *)
(***************************************************************************)
Emp(z, tz, name) == [EmptyEmp EXCEPT !.zoneId = z, !.timezone = tz, !.name = name]

\* admin.py issues role admin with zoneIds ["*"] unless the admin document
\* restricts it; subadmin.py issues role subadmin with the subadmin's zones
AdminAll == [role |-> "admin", zoneIds |-> {"*"}, employeeId |-> "", manage |-> 0, kpi |-> 0]

SelfE1 == [role |-> "subadmin", zoneIds |-> {"Z1"}, employeeId |-> "E1", manage |-> 0, kpi |-> 1]

\* local midnight in Asia/Kolkata of day 1
StartOfTime == _parse_date_in_tz(1, DEFAULT_TZ)

CreateArg(e, d) == [NoArg EXCEPT !.emp = e, !.pn = "P", !.dl = {d}]
DeadlineArg(d) == [NoArg EXCEPT !.dl = {d}]
QpArg(raw) == [NoArg EXCEPT !.qp = raw]

Reqs == {"r1", "r2"}

(***************************************************************************)
(* Spec: concurrent requests of an all-zones admin on the records of       *)
(* employee E1                                                             *)
(***************************************************************************)
Directory1 ==
    [e \in EmpIds |-> IF e = "E1" THEN Emp("Z1", "Asia/Kolkata", "n1")
                      ELSE Emp("Z2", "America/Los_Angeles", "n2")]

\* the store after addKpi for E1 with deadline day 1, at StartOfTime
Store1 == [k \in {"k1"} |-> NewKpiDoc("E1", Directory1["E1"], CreateArg("E1", 1), StartOfTime)]

\* a record written before zoneId, timezone and employeeName were stored:
\* the legacy documents the normalizer exists for
Legacy(doc) == [doc EXCEPT !.zoneId = "", !.timezone = "", !.employeeName = ""]

\* a record that stores a legacy zone name
Aliased(doc) == [doc EXCEPT !.timezone = "Asia/Calcutta"]

LegacyStore1 == [k \in {"k1"} |-> Legacy(Store1[k])]

Init ==
    /\ kpi \in {Store1, LegacyStore1}
    /\ employees = Directory1
    /\ now = StartOfTime
    /\ reqs = [r \in Reqs |-> Idle]
    /\ issued = {"k1"}
    /\ started = 0

Begin(r) ==
    /\ started < MaxRequests
    /\ \/ BeginPunch(r, AdminAll, "k1")
       \/ \E d \in Dates : BeginUpdate(r, AdminAll, "k1", DeadlineArg(d))
       \/ \E v \in {"1", "-1"} : BeginSetQp(r, AdminAll, "k1", QpArg(v))
       \/ BeginDelete(r, AdminAll, "k1")
       \/ BeginGet(r, AdminAll, "k1")

Check(r) ==
    \/ CheckPunch(r)
    \/ CheckUpdate(r)
    \/ CheckSetQp(r)
    \/ CheckDelete(r)
    \/ CheckGet(r)

Write(r) ==
    \/ WritePunch(r)
    \/ WriteUpdate(r)
    \/ WriteSetQp(r)
    \/ WriteDelete(r)

Next ==
    \/ \E r \in Reqs : Begin(r) \/ Check(r) \/ Write(r)
    \/ Tick(ClockPoints({"Asia/Kolkata"}))

Spec == Init /\ [][Next]_vars

(***************************************************************************)
(* SpecSeq: one request at a time (a single client that waits for each     *)
(* response), from an empty store                                          *)
(***************************************************************************)
InitSeq ==
    /\ kpi = [k \in {} |-> NoDoc]
    /\ employees = Directory1
    /\ now = StartOfTime
    /\ reqs = [r \in Reqs |-> Idle]
    /\ issued = {}
    /\ started = 0

\* qualityPoint values of a request body, as JSON literals: numbers,
\* booleans, and the string 'x'
QpInputs == {"1", "-1", "0", "2", "1.5", "true", "'x'"}

BeginSeq(r) ==
    /\ started < MaxSeqRequests
    /\ \/ BeginPunch(r, AdminAll, "k1")
       \/ \E d \in Dates : BeginUpdate(r, AdminAll, "k1", DeadlineArg(d))
       \/ \E v \in QpInputs : BeginSetQp(r, AdminAll, "k1", QpArg(v))
       \/ BeginDelete(r, AdminAll, "k1")
       \/ BeginGet(r, AdminAll, "k1")
       \/ BeginList(r, AdminAll, [NoArg EXCEPT !.emp = "E1"])
       \/ \E d \in Dates : BeginCreate(r, AdminAll, CreateArg("E1", d), "k1")

CheckMore(r) ==
    \/ CheckCreate(r)
    \/ CheckList(r)

NextSeq ==
    \/ BeginSeq("r1") \/ Check("r1") \/ CheckMore("r1")
    \/ Write("r1") \/ WriteCreate("r1")
    \/ Tick(ClockPoints({"Asia/Kolkata"}))

SpecSeq == InitSeq /\ [][NextSeq]_vars

(***************************************************************************)
(* SpecAuth: one request at a time, from every kind of caller, on a        *)
(* record of employee E2 in every relation to the directory: E2 in the     *)
(* caller's zone or another, in the caller's timezone or another, or       *)
(* deleted from the directory (delete_employee leaves the KPI records);    *)
(* the record complete or legacy.                                          *)
(***************************************************************************)
Sub(e, zs, manage, kpiPerm) ==
    [role |-> "subadmin", zoneIds |-> zs, employeeId |-> e, manage |-> manage, kpi |-> kpiPerm]

Admin(zs) == [role |-> "admin", zoneIds |-> zs, employeeId |-> "", manage |-> 0, kpi |-> 0]

AuthCallers ==
    {Admin(zs) : zs \in {{"*"}, {"Z1"}, {"Z2"}}}
    \cup {Sub("E1", zs, p[1], p[2]) :
              zs \in {{"Z1"}, {"Z2"}, {"Z1", "Z2"}},
              p \in {<<1, 0>>, <<0, 1>>, <<1, 1>>, <<0, 0>>}}
    \cup {Sub("E2", {"Z1"}, 0, 1), Sub("E2", {"Z1"}, 0, 0)}

E2Docs ==
    {Emp("Z1", "Asia/Kolkata", "n2"), Emp("Z1", "America/Los_Angeles", "n2"),
     Emp("Z2", "Asia/Kolkata", "n2")}

DirectoryWith(e2) ==
    [e \in EmpIds |-> IF e = "E1" THEN Emp("Z1", "Asia/Kolkata", "n1") ELSE e2]

\* E2 deleted from the directory
DirectoryWithout == [e \in {"E1"} |-> Emp("Z1", "Asia/Kolkata", "n1")]

StoreFor(e2) == [k \in {"k1"} |-> NewKpiDoc("E2", e2, CreateArg("E2", 1), StartOfTime)]

LegacyStoreFor(e2) == [k \in {"k1"} |-> Legacy(StoreFor(e2)[k])]

\* a legacy record that also names its project under projectName only
LegacyProject(doc) ==
    [Legacy(doc) EXCEPT !.project_name = "", !.projectName = doc.project_name]

LegacyProjectStoreFor(e2) == [k \in {"k1"} |-> LegacyProject(StoreFor(e2)[k])]

AliasedStoreFor(e2) == [k \in {"k1"} |-> Aliased(StoreFor(e2)[k])]

InitAuth ==
    /\ \/ \E e2 \in E2Docs :
            /\ employees = DirectoryWith(e2)
            /\ kpi \in {StoreFor(e2), LegacyStoreFor(e2), LegacyProjectStoreFor(e2),
                        AliasedStoreFor(e2)}
       \/ /\ employees = DirectoryWithout
          /\ kpi \in {StoreFor(Emp("Z1", "Asia/Kolkata", "n2")),
                      StoreFor(Emp("Z2", "Asia/Kolkata", "n2")),
                      LegacyStoreFor(Emp("Z1", "Asia/Kolkata", "n2"))}
    /\ now = StartOfTime
    /\ reqs = [r \in Reqs |-> Idle]
    /\ issued = {"k1"}
    /\ started = 0

\* bodies of updateKpi: nothing, a deadline, a project name with a remark,
\* both dates
UpdateArgs ==
    {NoArg, DeadlineArg(1), [NoArg EXCEPT !.pn = "Q", !.remark = "note"],
     [NoArg EXCEPT !.sd = {2}, !.dl = {2}]}

BeginAuth(r) ==
    /\ started < MaxAuthRequests
    /\ \E c \in AuthCallers :
          \/ \E k \in {"k1", "k2"} : BeginPunch(r, c, k)
          \/ \E a \in UpdateArgs : BeginUpdate(r, c, "k1", a)
          \/ \E v \in {"1", "2"} : BeginSetQp(r, c, "k1", QpArg(v))
          \/ BeginDelete(r, c, "k1")
          \/ BeginGet(r, c, "k1")
          \/ \E e \in EmpIds : BeginList(r, c, [NoArg EXCEPT !.emp = e])
          \/ \E a \in {CreateArg("E2", 1), [CreateArg("E2", 1) EXCEPT !.pn = ""]} :
                BeginCreate(r, c, a, "k3")

NextAuth ==
    \/ BeginAuth("r1") \/ Check("r1") \/ CheckMore("r1")
    \/ Write("r1") \/ WriteCreate("r1")

SpecAuth == InitAuth /\ [][NextAuth]_vars

(***************************************************************************)
(* SpecList: one caller sends one filter body to getAll, export_csv and    *)
(* getByEmployeeId, and reads by id, over directories and stores in which  *)
(* the record of E2 may be legacy or stale and E2 may have left the        *)
(* directory                                                               *)
(***************************************************************************)
MaxListRequests == 2

ListCallers ==
    {AdminAll, Admin({"Z1"}), Sub("E1", {"Z1"}, 1, 0), Sub("E1", {"Z1", "Z2"}, 1, 0),
     Sub("E1", {"Z1"}, 0, 1), Sub("E1", {"Z1"}, 0, 0)}

\* k1 belongs to E1; k2 to E2, added a minute later with start and deadline
\* on day 2 while E2's directory entry was e2
StoreOfBoth(e2) ==
    [k \in {"k1", "k2"} |->
        IF k = "k1" THEN Store1[k]
        ELSE NewKpiDoc("E2", e2, [CreateArg("E2", 2) EXCEPT !.sd = {2}], StartOfTime + 60)]

LegacyStoreOfBoth(e2) ==
    [k \in {"k1", "k2"} |->
        IF k = "k1" THEN Store1[k] ELSE Legacy(StoreOfBoth(e2)[k])]

InitList ==
    /\ employees \in {DirectoryWith(e2) : e2 \in E2Docs} \cup {DirectoryWithout}
    /\ kpi \in {StoreOfBoth(Emp("Z1", "Asia/Kolkata", "n2")),
                StoreOfBoth(Emp("Z2", "Asia/Kolkata", "n2")),
                LegacyStoreOfBoth(Emp("Z1", "Asia/Kolkata", "n2"))}
    /\ now = StartOfTime + 60
    /\ reqs = [r \in Reqs |-> Idle]
    /\ issued = {"k1", "k2"}
    /\ started = 0

\* the employee selections of a body: none, employeeId, employeeIds,
\* employesids
WhoFilters ==
    {NoArg, [NoArg EXCEPT !.emp = "E1"], [NoArg EXCEPT !.emp = "E2"],
     [NoArg EXCEPT !.emps = {"E1", "E2"}], [NoArg EXCEPT !.employesids = {"E2"}]}

\* the other filters of a body: a search term, a date range (well formed,
\* in the tz of the body, or with a malformed date), a page and an order
RestFilters ==
    {NoArg, [NoArg EXCEPT !.search = "p"], [NoArg EXCEPT !.search = "e2"],
     [NoArg EXCEPT !.from = {1}, !.to = {1}],
     [NoArg EXCEPT !.from = {2}, !.to = {2}],
     [NoArg EXCEPT !.from = {1}, !.to = {1}, !.ftz = "America/Los_Angeles"],
     [NoArg EXCEPT !.from = {BadDate}, !.to = {1}],
     [NoArg EXCEPT !.from = {1}, !.to = {BadDate}],
     [NoArg EXCEPT !.from = {BadDate}],
     [NoArg EXCEPT !.size = 1],
     [NoArg EXCEPT !.size = 1, !.page = 2],
     [NoArg EXCEPT !.size = 1, !.desc = FALSE]}

With(rest, z, who, all) ==
    [rest EXCEPT !.zone = z, !.emp = who.emp, !.emps = who.emps,
                 !.employesids = who.employesids, !.all = all]

\* every employee selection in every zone, and every other filter on all
\* employees and on E2
ListFilters ==
    {With(NoArg, z, who, all) :
        z \in {""} \cup Zones, who \in WhoFilters, all \in BOOLEAN}
    \cup {With(rest, "", who, all) :
        rest \in RestFilters, who \in {NoArg, [NoArg EXCEPT !.emp = "E2"]},
        all \in BOOLEAN}

\* every request of a behaviour carries the same token, and every listing
\* and export the same body
InSession == {r \in Reqs : reqs[r].op \in {"getall", "export", "list"}}

SessionCallers ==
    IF \A r \in Reqs : reqs[r].op = "none" THEN ListCallers
    ELSE {reqs[r].c : r \in {x \in Reqs : reqs[x].op # "none"}}

SessionFilters == IF InSession = {} THEN ListFilters ELSE {reqs[r].arg : r \in InSession}

\* r1 asks the two listings and getKpi, r2 the export
BeginListing(r) ==
    /\ started < MaxListRequests
    /\ \E c \in SessionCallers :
          \/ \E arg \in SessionFilters :
                \/ r = "r1" /\ BeginGetAll(r, c, arg)
                \/ r = "r2" /\ BeginExport(r, c, arg)
                \/ r = "r1" /\ BeginList(r, c, arg)
          \/ \E k \in {"k1", "k2"} : r = "r1" /\ BeginGet(r, c, k)

CheckListing(r) ==
    CheckGetAll(r) \/ CheckExport(r) \/ CheckList(r) \/ CheckGet(r) \/ CheckGetFails(r)

NextList == \E r \in Reqs : BeginListing(r) \/ CheckListing(r)

SpecList == InitList /\ [][NextList]_vars

(***************************************************************************)
(* employee.py: update_employee and delete_employee, as the directory      *)
(* changes they make for a caller who has the permission                   *)
(***************************************************************************)
\* update_one({"employeeId": e}, {"$set": data}) with a zoneId that
\* resolve_zone_id accepted, a timezone that resolve_timezone accepted and a
\* name
UpdateEmployee(e, z, tz, name) ==
    /\ e \in DOMAIN employees
    /\ employees' = [employees EXCEPT ![e] =
          [@ EXCEPT !.zoneId = z, !.timezone = tz, !.name = name]]
    /\ started' = started + 1
    /\ UNCHANGED <<kpi, now, reqs, issued>>

\* delete_one({"employeeId": e}): the KPI records of e stay
DeleteEmployee(e) ==
    /\ e \in DOMAIN employees
    /\ employees' = [x \in DOMAIN employees \ {e} |-> employees[x]]
    /\ started' = started + 1
    /\ UNCHANGED <<kpi, now, reqs, issued>>

(***************************************************************************)
(* SpecDir: an all-zones admin creates, changes and reads the record of    *)
(* employee E1 while the directory entry of E1 changes; reads may go on    *)
(* for ever                                                                *)
(***************************************************************************)
MaxDirRequests == 4

\* E1 as add_employee stores it, with a legacy zone name, and with an office
\* only
E1Docs ==
    {Emp("Z1", "Asia/Kolkata", "n1"), Emp("Z1", "Asia/Calcutta", "n1"),
     [Emp("Z1", "", "n1") EXCEPT !.office = "vegas"]}

InitDir ==
    /\ kpi = [k \in {} |-> NoDoc]
    /\ employees \in {[e \in {"E1"} |-> e1] : e1 \in E1Docs}
    /\ now = StartOfTime
    /\ reqs = [r \in Reqs |-> Idle]
    /\ issued = {}
    /\ started = 0

BeginDir(r) ==
    /\ started < MaxDirRequests
    /\ \/ BeginCreate(r, AdminAll, CreateArg("E1", 1), "k1")
       \/ BeginPunch(r, AdminAll, "k1")
       \/ \E a \in {DeadlineArg(2), [NoArg EXCEPT !.pn = "Q"]} :
             BeginUpdate(r, AdminAll, "k1", a)
       \/ BeginSetQp(r, AdminAll, "k1", QpArg("1"))

\* a read does not use up the requests of the behaviour
ReadDir(r) ==
    /\ \/ GetEnters(r, AdminAll, "k1")
       \/ ListEnters(r, AdminAll, [NoArg EXCEPT !.emp = "E1"])
    /\ UNCHANGED <<kpi, employees, now, issued, started>>

CheckDir(r) ==
    \/ CheckCreate(r) \/ CheckPunch(r) \/ CheckUpdate(r) \/ CheckSetQp(r)
    \/ CheckGet(r) \/ CheckList(r)

WriteDir(r) == WriteCreate(r) \/ WritePunch(r) \/ WriteUpdate(r) \/ WriteSetQp(r)

ChangeDirectory ==
    /\ started < MaxDirRequests
    /\ \/ \E z \in Zones, tz \in {"Asia/Kolkata", "America/Los_Angeles"},
            name \in {"n1", "N1"} : UpdateEmployee("E1", z, tz, name)
       \/ DeleteEmployee("E1")

NextDir ==
    \/ BeginDir("r1") \/ ReadDir("r1") \/ CheckDir("r1") \/ WriteDir("r1")
    \/ ChangeDirectory

SpecDir == InitDir /\ [][NextDir]_vars

\* every request that has been received is served, and reads keep coming
SpecDirLive ==
    SpecDir /\ WF_vars(ReadDir("r1")) /\ WF_vars(CheckDir("r1") \/ WriteDir("r1"))

(***************************************************************************)
(* SpecTz: createKpi resolves the timezone of employee documents of every  *)
(* shape, those add_employee writes and legacy ones                        *)
(***************************************************************************)
MaxTzRequests == 1

\* employee documents with the timezone names and the office texts of the
\* model
TzDocs ==
    {[Emp("Z1", t, "n1") EXCEPT !.tz = u, !.office = o, !.branch = b, !.location = l] :
        t \in {"", " ", "Asia/Kolkata", " Asia/Kolkata ", "Asia/Calcutta", "Mars/Phobos"},
        u \in {"", "US/Pacific"},
        o \in {"", "vegas", "Las Vegas", " india ", "Austin, USA", "washington", "london"},
        b \in {"", "delhi"}, l \in {"", "usa"}}

InitTz ==
    /\ kpi = [k \in {} |-> NoDoc]
    /\ employees \in {[e \in {"E1"} |-> e1] : e1 \in TzDocs}
    /\ now = StartOfTime
    /\ reqs = [r \in Reqs |-> Idle]
    /\ issued = {}
    /\ started = 0

BeginTz(r) ==
    /\ started < MaxTzRequests
    /\ \E d \in 1..MaxDay : BeginCreate(r, AdminAll, CreateArg("E1", d), "k1")

NextTz == BeginTz("r1") \/ CheckCreate("r1") \/ WriteCreate("r1")

SpecTz == InitTz /\ [][NextTz]_vars

(***************************************************************************)
(* Vocabulary of the properties                                            *)
(***************************************************************************)
Last(seq) == seq[Len(seq)]

IsPrefix(s, t) == Len(s) <= Len(t) /\ \A i \in 1..Len(s) : s[i] = t[i]

\* request r takes this step
Acts(r) == reqs'[r] # reqs[r]

\* request r writes its punch to an existing record in this step
PunchLands(r) ==
    /\ reqs[r].op = "punch" /\ reqs[r].pc = "write" /\ reqs'[r].pc = "done"
    /\ reqs[r].k \in DOMAIN kpi

Live(k) == k \in DOMAIN kpi /\ k \in DOMAIN kpi'

Appended(k) == Len(kpi'[k].punches) = Len(kpi[k].punches) + 1

\* C1: a record is created with points -1, no quality points and no punch;
\* with one request at a time, points goes from -1 to 1 in a step exactly
\* when that step appends a punch whose instant is <= the stored deadline;
\* points is always -1 or 1.
C1_PointsLifecycle ==
    [][\A k \in KpiIds :
          /\ (k \notin DOMAIN kpi /\ k \in DOMAIN kpi') =>
                /\ kpi'[k].points = 0 - 1
                /\ kpi'[k].qualityPoints = {}
                /\ kpi'[k].punches = <<>>
          /\ Live(k) =>
                /\ (kpi[k].points = 0 - 1 /\ kpi'[k].points = 1) =>
                      /\ Appended(k)
                      /\ Last(kpi'[k].punches).punchDate <= kpi[k].deadline
                /\ (Appended(k) /\ Last(kpi'[k].punches).punchDate <= kpi[k].deadline)
                      => kpi'[k].points = 1
          /\ k \in DOMAIN kpi' => kpi'[k].points \in {0 - 1, 1}]_vars

\* C1 witness: a created record whose first punch was late and left points
\* at -1 and whose later on-time punch scored it
C1_Witness ==
    /\ "k1" \in DOMAIN kpi
    /\ Len(kpi["k1"].punches) >= 2
    /\ kpi["k1"].punches[1].status = "Late Submission"
    /\ kpi["k1"].punches[2].status = "On Time"
    /\ kpi["k1"].points = 1

\* C2: once a record's stored points is 1 it is 1 in every later state.
C2_NoTransitionOutOfScored ==
    [][\A k \in KpiIds : (Live(k) /\ kpi[k].points = 1) => kpi'[k].points = 1]_vars

\* C3: at most one punch of a record carries a non-zero pointChange.
C3_AtMostOnePointGrant ==
    \A k \in DOMAIN kpi :
        Cardinality({i \in DOMAIN kpi[k].punches :
                        kpi[k].punches[i].pointChange # 0}) <= 1

\* C4 as stated: the punch appended on time while points is still -1 carries
\* pointChange +1, every other appended punch carries 0, and the response
\* returns the same value.
C4_PointChangePlusOne ==
    [][\A r \in Reqs : PunchLands(r) =>
          LET k == reqs[r].k
              p == Last(kpi'[k].punches)
          IN  /\ p.pointChange =
                    IF p.punchDate <= kpi[k].deadline /\ kpi[k].points = 0 - 1
                    THEN 1 ELSE 0
              /\ reqs'[r].data.change = p.pointChange]_vars

\* C4: the punch of a request that read points -1 and is on time against
\* the deadline it read carries pointChange +2 (the difference 1 - (-1)),
\* every other punch carries 0, in particular every punch of a request that
\* read points 1, and the response returns the same value.
C4_PointChangePlusTwo ==
    [][\A r \in Reqs : PunchLands(r) =>
          LET q == reqs[r]
              p == Last(kpi'[q.k].punches)
          IN  /\ p.pointChange =
                    IF p.punchDate <= q.snap.deadline /\ q.snap.points = 0 - 1
                    THEN 2 ELSE 0
              /\ q.snap.points = 1 => p.pointChange = 0
              /\ reqs'[r].data.change = p.pointChange]_vars

\* C4 witness: a record with two on-time punches, the first carrying +2 and
\* the second 0
C4_Witness ==
    /\ "k1" \in DOMAIN kpi
    /\ Len(kpi["k1"].punches) >= 2
    /\ kpi["k1"].punches[1].status = "On Time"
    /\ kpi["k1"].punches[1].pointChange = 2
    /\ kpi["k1"].punches[2].status = "On Time"
    /\ kpi["k1"].punches[2].pointChange = 0

\* C5: every step that keeps a record keeps its punch list as a prefix of
\* the new list, and every punch written to an existing record appends
\* exactly one entry to it, on time or late, scoring or not.
C5_PunchesAppendOnly ==
    [][/\ \A k \in KpiIds : Live(k) => IsPrefix(kpi[k].punches, kpi'[k].punches)
       /\ \A r \in Reqs : PunchLands(r) =>
             /\ Appended(reqs[r].k)
             /\ \A k \in DOMAIN kpi \ {reqs[r].k} : kpi'[k] = kpi[k]]_vars

\* C5 witness: two punches of one record, an on-time one followed by a late
\* one that changed nothing but the list
C5_Witness ==
    /\ "k1" \in DOMAIN kpi
    /\ Len(kpi["k1"].punches) = 2
    /\ kpi["k1"].punches[1].status = "On Time"
    /\ kpi["k1"].punches[2].status = "Late Submission"
    /\ kpi["k1"].punches[2].pointChange = 0

\* C6: the punch written by a request has status "On Time" exactly when its
\* instant is <= the deadline the request read, and "Late Submission"
\* otherwise; no punch has any other status.
C6_StatusByDeadlineRead ==
    [][/\ \A r \in Reqs : PunchLands(r) =>
             LET p == Last(kpi'[reqs[r].k].punches)
             IN  /\ p.punchDate = reqs[r].calc.now
                 /\ p.status = IF p.punchDate <= reqs[r].snap.deadline
                               THEN "On Time" ELSE "Late Submission"
                 /\ reqs'[r].data.st = p.status
       /\ \A k \in DOMAIN kpi' : \A i \in DOMAIN kpi'[k].punches :
             kpi'[k].punches[i].status \in {"On Time", "Late Submission"}]_vars

\* C6 witness: a punch at the deadline's last second recorded on time and a
\* punch one second later recorded late
C6_Witness ==
    /\ "k1" \in DOMAIN kpi
    /\ \E i, j \in DOMAIN kpi["k1"].punches :
          /\ kpi["k1"].punches[i].punchDate = kpi["k1"].deadline
          /\ kpi["k1"].punches[i].status = "On Time"
          /\ kpi["k1"].punches[j].punchDate = kpi["k1"].deadline + 1
          /\ kpi["k1"].punches[j].status = "Late Submission"

\* the employee a request targets: the owner of the record for the by-id
\* handlers, the resolved employee id for create and list
TargetOf(q) ==
    IF q.op \in {"update", "punch", "setqp", "delete", "get"}
    THEN (IF q.k \in DOMAIN kpi THEN kpi[q.k].employeeId ELSE "")
    ELSE IF q.op = "create" THEN _resolve_employee_id_from_request(q.c, q.arg)
    ELSE IF q.op = "list" THEN ListEmployeeId(q.c, q.arg)
    ELSE ""

Mutating == {"create", "update", "punch", "setqp", "delete"}

\* a mutating request of a caller who is not an all-zones admin on an
\* employee whose zone is outside the caller's zones
ZoneMismatch(q) ==
    /\ q.op \in Mutating
    /\ ~is_admin_all(q.c)
    /\ TargetOf(q) \in DOMAIN employees
    /\ _employee_zone_id(employees[TargetOf(q)]) \notin q.c.zoneIds

\* the fields the legacy normalizer backfills
Backfilled == {"zoneId", "timezone", "employeeName", "project_name", "remark"}

\* the step changes nothing in the store but missing backfilled fields of
\* record k and an aliased timezone name, rewritten to its canonical name
OnlyBackfill(k) ==
    /\ DOMAIN kpi' = DOMAIN kpi
    /\ \A j \in DOMAIN kpi : \A f \in DOMAIN kpi[j] :
          kpi'[j][f] # kpi[j][f] =>
              /\ j = k /\ f \in Backfilled
              /\ \/ kpi[j][f] \in {"", NullStr}
                 \/ f = "timezone" /\ kpi'[j][f] = TZ_ALIASES(kpi[j][f])

\* the input fails the validation the handler runs before it looks at the
\* target
FailsValidation(q) ==
    \/ q.op = "create" /\ (q.arg.pn = "" \/ q.arg.dl = {})
    \/ q.op = "setqp" /\ (QpMissing(q.arg.qp) \/ _coerce_quality_point(q.arg.qp) = {})

\* the caller passes the permission test the handler runs first
ModePasses(q) ==
    IF q.op \in {"setqp", "delete"} THEN _require_manage_kpi(q.c)
    ELSE _kpi_mode(q.c) # "denied"

\* C7 as stated: every step of a zone-mismatched mutating request leaves
\* the store unchanged, the request is never authorized, and its answer is
\* Forbidden.
C7_ZoneMismatchForbiddenNoMutation ==
    [][\A r \in Reqs : (Acts(r) /\ ZoneMismatch(reqs'[r])) =>
          /\ kpi' = kpi
          /\ reqs'[r].pc # "write"
          /\ reqs'[r].pc = "done" => reqs'[r].status = 403]_vars

\* C7: a zone-mismatched mutating request is never authorized; it is
\* answered Forbidden, or a validation error when the caller has the
\* permission the handler tests first and a create lacks a required field or
\* a setQualityPoint value is unacceptable; it changes nothing in
\* the store except that the normalizer may persist missing zoneId,
\* timezone, employeeName, project_name or remark of the target record.
C7_ZoneMismatchRejected ==
    [][\A r \in Reqs : (Acts(r) /\ ZoneMismatch(reqs'[r])) =>
          /\ OnlyBackfill(reqs'[r].k)
          /\ reqs'[r].pc # "write"
          /\ reqs'[r].pc = "done" =>
                /\ reqs'[r].status \in {403, 400}
                /\ reqs'[r].status = 400 <=>
                      (FailsValidation(reqs'[r]) /\ ModePasses(reqs'[r]))]_vars

\* C7 witness: a manage caller restricted to Z1 answered Forbidden by
\* setQualityPoint on the record of an employee in Z2
C7_Witness ==
    /\ reqs["r1"].op = "setqp" /\ reqs["r1"].pc = "done"
    /\ reqs["r1"].status = 403
    /\ reqs["r1"].c = Sub("E1", {"Z1"}, 1, 0)
    /\ "E2" \in DOMAIN employees /\ employees["E2"].zoneId = "Z2"
    /\ "k1" \in DOMAIN kpi /\ kpi["k1"].employeeId = "E2"
    /\ kpi["k1"].qualityPoints = {}

\* a finished list request of a self-mode caller that named another
\* employee
SelfListOfOther(q) ==
    /\ q.op = "list" /\ q.pc = "done"
    /\ _kpi_mode(q.c) = "self"
    /\ q.arg.emp # _caller_employee_id(q.c)

\* the employee guard rejects, for every self-mode caller, every employee of
\* the directory other than the caller
GuardRejectsOthers ==
    \A c \in AuthCallers : \A e \in DOMAIN employees :
        (_kpi_mode(c) = "self" /\ e # _caller_employee_id(c))
            => _ensure_employee_scope(c, e, employees) # "ok"

ManageOtherTimezone(q) ==
    /\ _kpi_mode(q.c) = "manage"
    /\ TargetOf(q) \in DOMAIN employees
    /\ _employee_zone_id(employees[TargetOf(q)]) \in q.c.zoneIds
    /\ _tz_key(_employee_timezone(employees[TargetOf(q)]))
          # _caller_timezone_key(q.c, employees)

\* C9: when a handler applies the guard for a manage-mode caller to an
\* employee in the caller's zones with another timezone, a caller with
\* exactly one zone is answered Forbidden and a caller with two or more
\* zones is let through.
C9_SingleZoneTimezoneBoundary ==
    [][\A r \in Reqs :
          (reqs[r].pc = "check" /\ Acts(r) /\ ManageOtherTimezone(reqs[r])) =>
              /\ Cardinality(reqs[r].c.zoneIds) = 1 =>
                    reqs'[r].pc = "done" /\ reqs'[r].status = 403
              /\ Cardinality(reqs[r].c.zoneIds) >= 2 =>
                    \/ reqs'[r].pc = "write"
                    \/ reqs'[r].pc = "done" /\ reqs'[r].status \in {200, 400}]_vars

\* C9 witness: a manage caller with zones Z1 and Z2, itself in Asia/Kolkata,
\* punched the record of an employee in Z1 and America/Los_Angeles
C9_Witness ==
    /\ reqs["r1"].op = "punch" /\ reqs["r1"].pc = "done"
    /\ reqs["r1"].status = 200
    /\ reqs["r1"].c = Sub("E1", {"Z1", "Z2"}, 1, 0)
    /\ "E2" \in DOMAIN employees
    /\ employees["E2"] = Emp("Z1", "America/Los_Angeles", "n2")
    /\ Len(kpi["k1"].punches) = 1

\* C10: every step of a request whose caller has none of admin, manage and
\* self leaves the store unchanged, the request is never authorized, and
\* its answer on an existing record is PermissionDenied.
C10_NoImplicitScope ==
    [][\A r \in Reqs :
          (Acts(r) /\ _kpi_mode(reqs'[r].c) = "denied"
                   /\ (reqs'[r].k = "" \/ reqs'[r].k \in DOMAIN kpi)) =>
              /\ kpi' = kpi
              /\ reqs'[r].pc # "write"
              /\ reqs'[r].pc = "done" => reqs'[r].status = 403]_vars

ById == {"update", "punch", "setqp", "delete", "get"}

\* the caller passes the permission test a by-id handler runs before it
\* looks the record up: none in update and punch
PassesFirstTest(q) ==
    IF q.op \in {"setqp", "delete"} THEN _require_manage_kpi(q.c)
    ELSE IF q.op = "get" THEN _kpi_mode(q.c) # "denied"
    ELSE TRUE

\* id k was issued, is not stored and is not about to be inserted by the
\* create that reserved it
Deleted(k) ==
    /\ k \in issued /\ k \notin DOMAIN kpi
    /\ \A r \in Reqs : ~(reqs[r].op = "create" /\ reqs[r].k = k
                              /\ reqs[r].pc \in {"check", "write"})

\* request r starts in this step with a by-id handler on a deleted id
StartsOnDeleted(r) ==
    /\ reqs[r].pc \in {"idle", "done"} /\ Acts(r)
    /\ reqs'[r].op \in ById
    /\ Deleted(reqs'[r].k)

\* a record leaves the store only in the write step of a delete whose caller
\* is in manage or admin mode and passes the guard on that record, and that
\* delete is answered with success; success is never given to another caller
DeleteOnlyByManagers ==
    /\ \A k \in DOMAIN kpi : k \notin DOMAIN kpi' =>
          \E r \in Reqs :
              /\ reqs[r].op = "delete" /\ reqs[r].pc = "write" /\ reqs[r].k = k
              /\ _kpi_mode(reqs[r].c) \in {"admin", "manage"}
              /\ KpiGuard(reqs[r].c, kpi[k], employees) = "ok"
              /\ reqs'[r].pc = "done" /\ reqs'[r].status = 200
    /\ \A r \in Reqs :
          (reqs'[r].op = "delete" /\ reqs'[r].pc = "done" /\ reqs'[r].status = 200) =>
              /\ _kpi_mode(reqs'[r].c) \in {"admin", "manage"}
              /\ reqs'[r].k \notin DOMAIN kpi'

\* a deleted id stays out of the store
GoneForGood == \A k \in KpiIds : Deleted(k) => k \notin DOMAIN kpi'

\* C11 as stated: delete succeeds only for a manage or admin caller that
\* passes the guard, a deleted record never comes back, and every later
\* get, update, punch, setQualityPoint or delete on its id is answered
\* NotFound.
C11_DeletedAlwaysNotFound ==
    [][/\ DeleteOnlyByManagers
       /\ GoneForGood
       /\ \A r \in Reqs : StartsOnDeleted(r) =>
             reqs'[r].pc = "done" /\ reqs'[r].status = 404]_vars

\* C11: delete succeeds only for a manage or admin caller that passes the
\* guard (a self-mode caller is refused even on its own record), a deleted
\* record never comes back, and no later by-id request on its id finds it:
\* the request is answered NotFound, unless the handler refuses it before
\* the lookup, Forbidden for a caller failing the permission test of get,
\* setQualityPoint or delete, or a validation error for a bad
\* setQualityPoint value.
C11_DeleteIrreversible ==
    [][/\ DeleteOnlyByManagers
       /\ GoneForGood
       /\ \A r \in Reqs : StartsOnDeleted(r) =>
             /\ reqs'[r].pc = "done"
             /\ reqs'[r].status =
                   IF ~PassesFirstTest(reqs'[r]) THEN 403
                   ELSE IF FailsValidation(reqs'[r]) THEN 400
                   ELSE 404
             /\ kpi' = kpi]_vars

\* C11 witness: k1 was deleted and a later punch on k1 was answered NotFound
C11_Witness ==
    /\ "k1" \in issued /\ "k1" \notin DOMAIN kpi
    /\ reqs["r1"].op = "punch" /\ reqs["r1"].k = "k1"
    /\ reqs["r1"].pc = "done" /\ reqs["r1"].status = 404

\* the record request q targets exists, its owner is in the directory and
\* is outside the caller's scope: in a zone outside the caller's zones,
\* another employee than a self-mode caller, or in another timezone than a
\* single-zone manage caller
OutOfScope(q) ==
    /\ q.op \in ById
    /\ _kpi_mode(q.c) # "denied"
    /\ TargetOf(q) \in DOMAIN employees
    /\ \/ (~is_admin_all(q.c))
             /\ _employee_zone_id(employees[TargetOf(q)]) \notin q.c.zoneIds
       \/ _kpi_mode(q.c) = "self" /\ TargetOf(q) # _caller_employee_id(q.c)
       \/ ManageOtherTimezone(q) /\ Cardinality(q.c.zoneIds) = 1

\* C12: when a by-id handler applies the guard to a record outside the
\* caller's scope, getKpi answers NotFound, as for an id that does not
\* exist, and update, punch, setQualityPoint and delete answer Forbidden.
C12_GetOutOfScopeNotFound ==
    [][\A r \in Reqs :
          (reqs[r].pc = "check" /\ Acts(r) /\ OutOfScope(reqs[r])) =>
              /\ reqs'[r].pc = "done"
              /\ reqs'[r].status = IF reqs[r].op = "get" THEN 404 ELSE 403
              /\ reqs'[r].out = {}]_vars

\* request r writes its quality point to an existing record in this step
QpLands(r) ==
    /\ reqs[r].op = "setqp" /\ reqs[r].pc = "write" /\ reqs'[r].pc = "done"
    /\ reqs[r].k \in DOMAIN kpi

\* the number a quality point value of -1 or 1 stands for
QpValue(raw) == IF raw = "1" THEN 1 ELSE 0 - 1

\* C13: every setQualityPoint that succeeds on a record, whatever the
\* record's points, punches and earlier quality point, leaves the value of
\* that call stored and returns it; a call with -1 on a record holding 1
\* leaves -1.
C13_QualityPointLastWriteWins ==
    [][\A r \in Reqs : (QpLands(r) /\ reqs[r].arg.qp \in {"1", "-1"}) =>
          LET k == reqs[r].k
          IN  /\ reqs'[r].status = 200
              /\ kpi'[k].qualityPoints = {QpValue(reqs[r].arg.qp)}
              /\ reqs'[r].data.qp = QpValue(reqs[r].arg.qp)
              /\ kpi'[k].points = kpi[k].points
              /\ kpi'[k].punches = kpi[k].punches]_vars

\* C13 witness: a scored record with a punch whose quality point was set to
\* -1 by the last call
C13_Witness ==
    /\ "k1" \in DOMAIN kpi
    /\ kpi["k1"].points = 1 /\ Len(kpi["k1"].punches) = 1
    /\ kpi["k1"].qualityPoints = {0 - 1}
    /\ reqs["r1"].op = "setqp" /\ reqs["r1"].pc = "done"
    /\ reqs["r1"].status = 200 /\ reqs["r1"].arg.qp = "-1"

\* C14: a setQualityPoint on an existing record with a value other than -1
\* and 1 (0, 2, 1.5, true, an unrecognized string) is answered with a
\* validation error and changes nothing, and every stored qualityPoints is
\* null, -1 or 1.
C14_OnlyMinusOneAndOneAccepted ==
    [][/\ \A r \in Reqs :
             (Acts(r) /\ reqs'[r].op = "setqp" /\ reqs'[r].k \in DOMAIN kpi
                      /\ reqs'[r].arg.qp \notin {"1", "-1"}) =>
                 /\ kpi' = kpi
                 /\ reqs'[r].pc = "done" => reqs'[r].status = 400
       /\ \A k \in DOMAIN kpi' : kpi'[k].qualityPoints \in {{}, {1}, {0 - 1}}]_vars

\* an update body that supplies none of project name, remark, start date
\* and deadline
NoFields(arg) ==
    arg.pn = "" /\ arg.remark = NullStr /\ arg.sd = {} /\ arg.dl = {}

\* request r is an update that writes to an existing record in this step
UpdateLands(r) ==
    /\ reqs[r].op = "update" /\ reqs[r].pc = "write" /\ reqs'[r].pc = "done"
    /\ reqs[r].k \in DOMAIN kpi

\* the value a successful update leaves in field f of record doc: the
\* supplied one, the instant of the update for updatedAt, else the old one
AfterUpdate(doc, arg, at, f) ==
    LET tz == _tz_from_name(doc.timezone)
    IN  IF f = "project_name" /\ arg.pn # "" THEN arg.pn
        ELSE IF f = "remark" /\ arg.remark # NullStr THEN arg.remark
        ELSE IF f = "startdate" /\ arg.sd # {}
             THEN _parse_date_in_tz(CHOOSE d \in arg.sd : TRUE, tz)
        ELSE IF f = "deadline" /\ arg.dl # {}
             THEN _parse_eod_in_tz(CHOOSE d \in arg.dl : TRUE, tz)
        ELSE IF f = "updatedAt" THEN at
        ELSE doc[f]

\* the write of an update sets the supplied fields and updatedAt and
\* nothing else
WriteSetsSupplied ==
    \A r \in Reqs : UpdateLands(r) =>
        /\ reqs'[r].status = 200
        /\ ~NoFields(reqs[r].arg)
        /\ DOMAIN kpi' = DOMAIN kpi
        /\ \A j \in DOMAIN kpi \ {reqs[r].k} : kpi'[j] = kpi[j]
        /\ \A f \in DOMAIN kpi[reqs[r].k] :
              kpi'[reqs[r].k][f] =
                  AfterUpdate(kpi[reqs[r].k], reqs[r].arg, reqs[r].calc.now, f)

\* C15 as stated: an update with no field supplied is answered with a
\* validation error and changes nothing in any of its steps; the steps of
\* any other update before its write change nothing, and its write sets
\* exactly the supplied fields and updatedAt.
C15_UpdateExactlySupplied ==
    [][/\ \A r \in Reqs :
             (Acts(r) /\ reqs'[r].op = "update" /\ ~UpdateLands(r)) => kpi' = kpi
       /\ \A r \in Reqs :
             (Acts(r) /\ reqs'[r].op = "update" /\ NoFields(reqs'[r].arg)
                      /\ reqs'[r].k \in DOMAIN kpi
                      /\ KpiGuard(reqs'[r].c, kpi[reqs'[r].k], employees) = "ok") =>
                 /\ reqs'[r].pc # "write"
                 /\ reqs'[r].pc = "done" => reqs'[r].status = 400
       /\ WriteSetsSupplied]_vars

\* C15: an authorized update with no field supplied is answered with a
\* validation error and never writes; the write of a successful update sets
\* exactly the supplied fields and updatedAt; and the only other change an
\* update makes is the normalizer's, which before the guard persists the
\* record's missing zoneId, timezone, employeeName, project_name or remark.
C15_UpdateSuppliedPlusBackfill ==
    [][/\ \A r \in Reqs :
             (Acts(r) /\ reqs'[r].op = "update" /\ ~UpdateLands(r)) =>
                 /\ OnlyBackfill(reqs'[r].k)
                 /\ kpi' # kpi => reqs[r].pc = "check"
       /\ \A r \in Reqs :
             (Acts(r) /\ reqs'[r].op = "update" /\ NoFields(reqs'[r].arg)
                      /\ reqs'[r].k \in DOMAIN kpi
                      /\ KpiGuard(reqs'[r].c, kpi[reqs'[r].k], employees) = "ok") =>
                 /\ reqs'[r].pc # "write"
                 /\ reqs'[r].pc = "done" => reqs'[r].status = 400
       /\ WriteSetsSupplied]_vars

\* C15 witness: an update set project name and remark and left the deadline
\* alone, and a later update with no field was answered 400
C15_Witness ==
    /\ "k1" \in DOMAIN kpi
    /\ kpi["k1"].project_name = "Q" /\ kpi["k1"].remark = "note"
    /\ kpi["k1"].deadline = _parse_eod_in_tz(1, _tz_from_name(kpi["k1"].timezone))
    /\ reqs["r1"].op = "update" /\ reqs["r1"].pc = "done"
    /\ NoFields(reqs["r1"].arg) /\ reqs["r1"].status = 400

\* the wall clock of zone tz at UTC instant dt, in seconds since the local
\* epoch: its day is the quotient by a day, its time of day the remainder
WallClock(dt, tz) == dt + UtcOffset(tz)

\* UTC instant dt is 23:59:59 of day D on the wall clock of zone tz and is
\* formatted as D in that zone
IsEndOfDay(dt, D, tz) ==
    /\ WallClock(dt, tz) \div SecondsPerDay = D
    /\ WallClock(dt, tz) % SecondsPerDay = 23 * 3600 + 59 * 60 + 59
    /\ _fmt_date_in_tz(dt, tz) = D

\* request r inserts its record in this step
CreateLands(r) ==
    /\ reqs[r].op = "create" /\ reqs[r].pc = "write" /\ reqs'[r].pc = "done"
    /\ reqs[r].k \notin DOMAIN kpi /\ reqs[r].k \in DOMAIN kpi'

\* C16: the deadline a create stores for date D is 23:59:59 of D in the
\* owning employee's resolved timezone, the deadline an update stores is
\* 23:59:59 of D in the record's stored timezone whatever the caller's, and
\* each is formatted back as D in that zone.
C16_DeadlineEndOfLocalDay ==
    [][/\ \A r \in Reqs : CreateLands(r) =>
             \A D \in reqs[r].arg.dl :
                 /\ TargetOf(reqs[r]) \in DOMAIN employees
                 /\ IsEndOfDay(kpi'[reqs[r].k].deadline, D,
                               _employee_timezone(employees[TargetOf(reqs[r])]))
                 /\ kpi'[reqs[r].k].timezone =
                       _tz_key(_employee_timezone(employees[TargetOf(reqs[r])]))
       /\ \A r \in Reqs : UpdateLands(r) =>
             \A D \in reqs[r].arg.dl :
                 IsEndOfDay(kpi'[reqs[r].k].deadline, D,
                            _tz_from_name(kpi[reqs[r].k].timezone))]_vars

\* C16 witness: a caller in Asia/Kolkata moved the deadline of a record in
\* America/Los_Angeles to day 2, stored as 07:59:59 UTC of day 3
C16_Witness ==
    /\ "k1" \in DOMAIN kpi
    /\ kpi["k1"].timezone = "America/Los_Angeles"
    /\ kpi["k1"].deadline = 3 * SecondsPerDay + 7 * 3600 + 59 * 60 + 59
    /\ reqs["r1"].op = "update" /\ reqs["r1"].pc = "done"
    /\ reqs["r1"].status = 200 /\ reqs["r1"].arg.dl = {2}
    /\ _caller_timezone_key(reqs["r1"].c, employees) = "Asia/Kolkata"

(***************************************************************************)
(* Listings and exports                                                    *)
(***************************************************************************)
\* request r answers in this step
Answers(r) == reqs[r].pc = "check" /\ reqs'[r].pc = "done"

\* employee e of the directory is in the scope of caller c narrowed to zone:
\* in the selected zone, in one of the caller's zones unless the caller is an
\* all-zones admin, and in the caller's timezone when the caller is a
\* manager of a single zone
InCallerScope(c, zone, e) ==
    /\ e \in DOMAIN employees
    /\ zone # "" => employees[e].zoneId = zone
    /\ is_admin_all(c) \/ employees[e].zoneId \in c.zoneIds
    /\ (_kpi_mode(c) = "manage" /\ c.role # "admin" /\ Cardinality(c.zoneIds) = 1)
          => _tz_key(_employee_timezone(employees[e])) = _caller_timezone_key(c, employees)

\* C17: every record that listKpis (getAll) or exportKpisCsv returns belongs
\* to an employee who is in the caller's scope in the directory as it is at
\* the call, whatever zoneId and timezone the record itself stores.
C17_ListedRecordsOfAllowedEmployees ==
    [][\A r \in Reqs :
          (Answers(r) /\ reqs[r].op \in {"getall", "export"}) =>
              \A row \in reqs'[r].out :
                  /\ row[1] \in DOMAIN kpi
                  /\ row[2] = kpi[row[1]].employeeId
                  /\ InCallerScope(reqs[r].c, reqs[r].arg.zone, row[2])]_vars

\* a manager of the single zone Z1 is answered with records while the store
\* holds a record of E2 that still says Z1 and the directory has E2 in Z2
C17_Witness ==
    \E r \in Reqs :
        /\ reqs[r].op \in {"getall", "export"} /\ reqs[r].pc = "done"
        /\ reqs[r].status = 200 /\ reqs[r].out # {}
        /\ reqs[r].c = Sub("E1", {"Z1"}, 1, 0)
        /\ "E2" \in DOMAIN employees /\ employees["E2"].zoneId = "Z2"
        /\ kpi["k2"].zoneId = "Z1"
        /\ \A row \in reqs[r].out : row[2] = "E1"

\* the employee ids a body asks for under employeeId or employeeIds
Asked(arg) == IF arg.emp # "" THEN {arg.emp} ELSE arg.emps

\* the caller may use the endpoint and the zone the body selects
MayList(q) == _require_manage_kpi(q.c) /\ ~ZoneRefused(q.c, q.arg.zone)

\* C18: when none of the employee ids a body asks for is in the caller's
\* scope, listKpis and exportKpisCsv both answer with an empty result that
\* is not an error.
C18_EmptyIntersectionEmptyResult ==
    [][\A r \in Reqs :
          (/\ Answers(r) /\ reqs[r].op \in {"getall", "export"}
           /\ MayList(reqs[r])
           /\ Asked(reqs[r].arg) # {}
           /\ \A e \in Asked(reqs[r].arg) :
                  ~InCallerScope(reqs[r].c, reqs[r].arg.zone, e)) =>
              /\ reqs'[r].status = 200
              /\ reqs'[r].out = {}]_vars

\* r1 holds the answer of listKpis and r2 the answer of exportKpisCsv with
\* all = true, to the same caller and the same body
ListedAndExported ==
    /\ reqs["r1"].op = "getall" /\ reqs["r1"].pc = "done"
    /\ reqs["r2"].op = "export" /\ reqs["r2"].pc = "done"
    /\ reqs["r1"].c = reqs["r2"].c /\ reqs["r1"].arg = reqs["r2"].arg
    /\ reqs["r2"].arg.all

\* C19: for one caller and one body, exportKpisCsv with all = true succeeds
\* exactly when listKpis succeeds, and then it emits the records of all the
\* pages of listKpis: the page listKpis returned is among them and their
\* number is the total listKpis reports.
C19_ExportAllEqualsList ==
    ListedAndExported =>
        /\ reqs["r1"].status = 200 <=> reqs["r2"].status = 200
        /\ reqs["r1"].status = 200 =>
              /\ reqs["r1"].out \subseteq reqs["r2"].out
              /\ reqs["r1"].total = Cardinality(reqs["r2"].out)

\* the date fields of the body of q that hold a malformed date
MalformedDates(q) ==
    IF q.op \in {"create", "update"}
    THEN {f \in {"startdate", "deadline"} :
            \E d \in (IF f = "startdate" THEN q.arg.sd ELSE q.arg.dl) : ~ValidDate(d)}
    ELSE IF q.op \in {"getall", "list", "export"}
    THEN {f \in {"startDate", "endDate"} :
            \E d \in (IF f = "startDate" THEN q.arg.from ELSE q.arg.to) : ~ValidDate(d)}
    ELSE {}

\* C20: a request whose body holds a malformed date is answered as a
\* validation error: the answer is never an internal error (500), an answer
\* of 400 for the dates names a malformed field, and the store stays as it
\* was.
C20_MalformedDateNeverInternalError ==
    [][\A r \in Reqs :
          (/\ Acts(r) /\ reqs'[r].pc = "done"
           /\ MalformedDates(reqs'[r]) # {}) =>
              /\ reqs'[r].status # 500
              /\ reqs'[r].msg \in {"startdate", "deadline", "startDate", "endDate"}
                    => (reqs'[r].status = 400 /\ reqs'[r].msg \in MalformedDates(reqs'[r]))
              /\ kpi' = kpi]_vars

(***************************************************************************)
(* Self-mode callers, rejections and concurrent deletes                    *)
(***************************************************************************)
\* request r is answered with success in this step
Succeeds(r) == Acts(r) /\ reqs'[r].pc = "done" /\ reqs'[r].status = 200

\* C21: whenever getKpi, updateKpi or punch answers a self-mode caller with
\* success, the record it acted on belongs to the caller's own employee id,
\* also when the owning employee is no longer in the directory.
C21_SelfModeOnlyOwnRecords ==
    [][\A r \in Reqs :
          (/\ Succeeds(r)
           /\ reqs'[r].op \in {"get", "update", "punch"}
           /\ _kpi_mode(reqs'[r].c) = "self") =>
              /\ reqs'[r].k \in DOMAIN kpi
              /\ kpi[reqs'[r].k].employeeId = _caller_employee_id(reqs'[r].c)]_vars

\* request r is answered with a rejection in this step
Rejected(r) ==
    Acts(r) /\ reqs'[r].pc = "done" /\ reqs'[r].status \in {400, 403, 404}

\* C22 as stated: the step that answers update, punch, setQualityPoint,
\* delete or getKpi with a rejection leaves every stored record as it was.
C22_RejectionLeavesStoreUnchanged ==
    [][\A r \in Reqs :
          (Rejected(r) /\ reqs'[r].op \in ById) => kpi' = kpi]_vars

\* C22: a request that is rejected changes nothing in the store, except that
\* a handler which found the record has run the Legacy Normalizer on it
\* before the guard, which persists that record's missing fields and the
\* canonical name of an aliased timezone; a request rejected before the
\* record is read changes nothing at all.
C22_RejectionOnlyNormalizes ==
    [][\A r \in Reqs :
          (Rejected(r) /\ reqs'[r].op \in ById) =>
              /\ OnlyBackfill(reqs'[r].k)
              /\ reqs[r].pc # "check" => kpi' = kpi]_vars

\* the first request, by a caller outside the record's zone, was refused and
\* left a legacy record with the fields of its employee
C22_Witness ==
    /\ started = 1
    /\ reqs["r1"].pc = "done" /\ reqs["r1"].status = 403
    /\ reqs["r1"].op \in ById
    /\ kpi["k1"].projectName = "P" /\ kpi["k1"].project_name = "P"
    /\ kpi["k1"].zoneId # "" /\ kpi["k1"].employeeName # ""

\* C23: whenever punch, updateKpi or setQualityPoint answers with success,
\* the record is in the store after the write and carries the effect: the
\* punch with the returned status as its last punch and the returned points,
\* the quality point that was sent. No success is reported for a record that
\* a concurrent deleteKpi removed between the read and the write.
C23_SuccessMeansApplied ==
    [][\A r \in Reqs :
          (Succeeds(r) /\ reqs'[r].op \in {"punch", "update", "setqp"}) =>
              /\ reqs'[r].k \in DOMAIN kpi'
              /\ reqs'[r].op = "punch" =>
                    /\ kpi'[reqs'[r].k].punches # <<>>
                    /\ Last(kpi'[reqs'[r].k].punches).status = reqs'[r].data.st
                    /\ kpi'[reqs'[r].k].points = reqs'[r].data.pts
              /\ reqs'[r].op = "setqp" =>
                    kpi'[reqs'[r].k].qualityPoints = {reqs'[r].data.qp}]_vars

(***************************************************************************)
(* Points, quality points and the stored timezone                          *)
(***************************************************************************)
HasOnTimePunch(doc) ==
    \E i \in 1..Len(doc.punches) : doc.punches[i].status = "On Time"

\* C24: in every state, under any interleaving of punch, updateKpi and
\* setQualityPoint, the stored points of a record is 1 exactly when its
\* punch list holds a punch with status "On Time".
C24_PointsIffOnTimePunch ==
    \A k \in DOMAIN kpi : kpi[k].points = 1 <=> HasOnTimePunch(kpi[k])

\* the project name and the remark of a record as every read shows them
ProjectNameOf(doc) == IF doc.project_name # "" THEN doc.project_name ELSE doc.projectName

RemarkOf(doc) ==
    IF doc.remark # NullStr THEN doc.remark
    ELSE IF doc.Remark # NullStr THEN doc.Remark ELSE ""

\* the step keeps the fields fs of record k
Keeps(k, fs) == \A f \in fs : kpi'[k][f] = kpi[k][f]

KeepsNameAndRemark(k) ==
    /\ ProjectNameOf(kpi'[k]) = ProjectNameOf(kpi[k])
    /\ RemarkOf(kpi'[k]) = RemarkOf(kpi[k])

\* C25: every step of setQualityPoint keeps points, punches, deadline, start
\* date, project name and remark of its record; every step of punch keeps
\* qualityPoints, deadline, start date, project name and remark; every step
\* of updateKpi keeps points, qualityPoints and punches, wherever it moves
\* the deadline.
C25_PointsAndQualityIndependent ==
    [][\A r \in Reqs :
          (Acts(r) /\ reqs'[r].k \in DOMAIN kpi /\ reqs'[r].k \in DOMAIN kpi') =>
              /\ reqs'[r].op = "setqp" =>
                    /\ Keeps(reqs'[r].k, {"points", "punches", "deadline", "startdate"})
                    /\ KeepsNameAndRemark(reqs'[r].k)
              /\ reqs'[r].op = "punch" =>
                    /\ Keeps(reqs'[r].k, {"qualityPoints", "deadline", "startdate"})
                    /\ KeepsNameAndRemark(reqs'[r].k)
              /\ reqs'[r].op = "update" =>
                    Keeps(reqs'[r].k, {"points", "qualityPoints", "punches"})]_vars

\* a record scored by an on-time punch whose deadline was then moved before
\* the punch and whose quality point was then set
C25_Witness ==
    /\ "k1" \in DOMAIN kpi
    /\ kpi["k1"].points = 1
    /\ HasOnTimePunch(kpi["k1"])
    /\ kpi["k1"].deadline < kpi["k1"].punches[1].punchDate
    /\ kpi["k1"].qualityPoints # {}

\* the canonical zone names
CanonicalZones == {"Asia/Kolkata", "America/Los_Angeles", "UTC"}

\* C26: addKpi gives a record the canonical timezone resolved from the owning
\* employee as the handler read it, and no later step of punch,
\* setQualityPoint, updateKpi or a read with its normalization changes the
\* stored timezone, whatever becomes of the employee's own timezone.
C26_TimezoneSetOnceAtCreation ==
    [][/\ \A r \in Reqs :
             (reqs[r].op = "create" /\ reqs[r].pc = "check" /\ reqs'[r].pc = "write") =>
                 /\ reqs'[r].snap.timezone \in CanonicalZones
                 /\ reqs'[r].snap.timezone =
                       _tz_key(_employee_timezone(employees[reqs'[r].snap.employeeId]))
       /\ \A k \in DOMAIN kpi' \ DOMAIN kpi :
             \E r \in Reqs : /\ reqs[r].op = "create" /\ reqs[r].k = k
                             /\ kpi'[k].timezone = reqs[r].snap.timezone
       /\ \A k \in DOMAIN kpi \cap DOMAIN kpi' :
             kpi'[k].timezone = kpi[k].timezone]_vars

\* a record created while E1 was in Asia/Kolkata has been punched and read,
\* E1 has moved to America/Los_Angeles, and the record still stores
\* Asia/Kolkata
C26_Witness ==
    /\ "k1" \in DOMAIN kpi /\ "E1" \in DOMAIN employees
    /\ kpi["k1"].timezone = "Asia/Kolkata"
    /\ employees["E1"].timezone = "America/Los_Angeles"
    /\ kpi["k1"].punches # <<>>
    /\ reqs["r1"].op = "get" /\ reqs["r1"].pc = "done" /\ reqs["r1"].status = 200

(***************************************************************************)
(* The Legacy Normalizer on reads                                          *)
(***************************************************************************)
Reads == {"get", "getall", "list", "export"}

\* the record needs no patch: its zoneId, timezone and employeeName are
\* present, its timezone is canonical and it has no legacy project or remark
\* field to copy
Normalized(doc) ==
    /\ doc.zoneId # "" /\ doc.timezone # "" /\ doc.employeeName # ""
    /\ TZ_ALIASES(doc.timezone) = doc.timezone
    /\ doc.project_name = "" => doc.projectName = ""
    /\ doc.remark = NullStr => doc.Remark = NullStr

\* field f of record k was absent and the step stored v in it
Filled(k, f, v) == kpi[k][f] = "" => kpi'[k][f] = v

\* C27: when a read (getKpi, listKpis, listKpisForEmployee, exportKpisCsv)
\* returns a record whose owning employee is in the directory, the stored
\* record holds after the read its zoneId, timezone and employeeName, the
\* absent ones taken from the employee, and needs no further patch; a read
\* of a record that needs no patch writes nothing to it.
C27_ReadBackfillsOnce ==
    [][\A r \in Reqs :
          (Answers(r) /\ reqs'[r].op \in Reads /\ reqs'[r].status = 200) =>
              \A row \in reqs'[r].out :
                  (row[1] \in DOMAIN kpi /\ row[2] \in DOMAIN employees) =>
                      /\ Normalized(kpi'[row[1]])
                      /\ Filled(row[1], "zoneId", employees[row[2]].zoneId)
                      /\ Filled(row[1], "timezone",
                                _tz_key(_employee_timezone(employees[row[2]])))
                      /\ Filled(row[1], "employeeName", employees[row[2]].name)
                      /\ Normalized(kpi[row[1]]) => kpi'[row[1]] = kpi[row[1]]]_vars

\* a read has returned the legacy record of E2, which now stores the zone,
\* the timezone and the name of E2 in the directory
C27_Witness ==
    /\ "E2" \in DOMAIN employees
    /\ employees["E2"].timezone = "America/Los_Angeles"
    /\ kpi["k2"].timezone = "America/Los_Angeles"
    /\ kpi["k2"].zoneId = employees["E2"].zoneId
    /\ kpi["k2"].employeeName = employees["E2"].name
    /\ \E r \in Reqs : /\ reqs[r].op \in Reads /\ reqs[r].pc = "done"
                       /\ reqs[r].status = 200 /\ <<"k2", "E2">> \in reqs[r].out


\* the normalizer has a patch to store in record k
PatchDue(k) == k \in DOMAIN kpi /\ NormalizerPairs(kpi[k], employees) # {}

\* C28: when the normalizer's employee lookup or patch write fails inside
\* getKpi, so that the patch due to the record is not stored, getKpi still
\* completes with its normal result: it answers 200 with the record, or 403
\* to a caller out of scope, and never an internal error.
C28_NormalizerFailureSwallowed ==
    [][\A r \in Reqs :
          (Answers(r) /\ reqs'[r].op = "get" /\ PatchDue(reqs[r].k) /\ kpi' = kpi) =>
              /\ reqs'[r].status \in {200, 403}
              /\ reqs'[r].status = 200 =>
                    reqs'[r].out = {<<reqs[r].k, kpi[reqs[r].k].employeeId>>}]_vars


(***************************************************************************)
(* The denormalized fields and the directory                               *)
(***************************************************************************)
\* every record whose owning employee is in the directory stores that
\* employee's current zone and name
FollowsDirectory ==
    \A k \in DOMAIN kpi :
        kpi[k].employeeId \in DOMAIN employees =>
            /\ kpi[k].zoneId = employees[kpi[k].employeeId].zoneId
            /\ kpi[k].employeeName = employees[kpi[k].employeeId].name

\* C29: when reads keep coming and every request is served, then after the
\* last change of an employee's zone or name the stored zoneId and
\* employeeName of the employee's records become equal to the employee's
\* current values and stay so.
C29_EventuallyFollowsDirectory == <>[]FollowsDirectory


(***************************************************************************)
(* Timezone resolution                                                     *)
(***************************************************************************)
\* the explicit timezone name of an employee document: timezone, else tz
ExplicitName(emp) == Strip(IF emp.timezone # "" THEN emp.timezone ELSE emp.tz)

\* the office text of an employee document: office, else branch, else location
OfficeText(emp) ==
    IF emp.office # "" THEN emp.office
    ELSE IF emp.branch # "" THEN emp.branch ELSE emp.location

\* the precedence: an explicit name of a valid zone, canonicalized; else the
\* first keyword found in the office text; else the default
ByPrecedence(emp) ==
    IF ExplicitName(emp) # "" /\ TZ_ALIASES(ExplicitName(emp)) \in ValidZoneNames
    THEN TZ_ALIASES(ExplicitName(emp))
    ELSE OfficeTz(OfficeText(emp))

\* C30: timezone resolution never fails and follows the precedence: createKpi
\* never answers an internal error, and the record it creates stores the
\* explicit timezone/tz of the employee when that names a valid zone
\* (canonicalized), otherwise (absent, empty or not a valid zone) the zone of
\* the first keyword found in office/branch/location, otherwise the default.
C30_TimezoneByPrecedence ==
    /\ \A r \in Reqs : reqs[r].status # 500
    /\ "k1" \in DOMAIN kpi => kpi["k1"].timezone = ByPrecedence(employees["E1"])

====
